---- MODULE Spec2Model ----
(***************************************************************************)
(* Verification model of the Google-Maps lead generator:                   *)
(*   - the lead scorer        src/src/scoring/leadScore.js                 *)
(*   - the email resolver     src/unnamed/part_000  (scrapers/website.js)  *)
(*   - the pipeline callback  src/src/main.js and the detail crawler of    *)
(*                            src/unnamed/part_003 (scrapers/googleMaps.js)*)
(***************************************************************************)
EXTENDS Integers, Sequences, FiniteSets, TLC

VARIABLES
    lead,          \* scorer: the lead handed to calculateLeadScore
    icp,           \* scorer: the IdealCustomerProfile handed to it
    scoreResult,   \* scorer: the returned ScoreResult, NotScored before the call
    calls,         \* resolver: the calls of extractEmailFromWebsite, by slot
    world,         \* pipeline: the businesses Google Maps lists, in listing order
    config,        \* pipeline: the run's input after main.js has normalised it
    scraper,       \* pipeline: scrapeGoogleMaps: its phase, leads and loop index
    requests,      \* pipeline: the detail crawler's requests, by business
    procs,         \* pipeline: the invocations of processAndSaveLead, by business
    dataset,       \* pipeline: the records pushed to the dataset, in order
    stats          \* pipeline: the run's counters

scorerVars == <<lead, icp, scoreResult>>
pipelineVars == <<world, config, scraper, requests, procs, dataset, stats>>
vars == <<lead, icp, scoreResult, calls, world, config, scraper, requests, procs, dataset,
          stats>>

(***************************************************************************)
(* JavaScript values.  A JS number x is held as the integer x * U: every   *)
(* number the scorer computes is a multiple of 1/U (ratings have two       *)
(* decimals, social points are multiples of 1.25, and a total divided by   *)
(* 95 is a multiple of 1/95 * 1/4), so the arithmetic below is exact.      *)
(***************************************************************************)
U == 4 * 19 * 100

Null == [t |-> "null"]
Undefined == [t |-> "undefined"]
NaN == [t |-> "NaN"]
Num(x) == [t |-> "number", n |-> x * U]
Dec(x, d) == [t |-> "number", n |-> (x * U) \div d]
Str(s) == [t |-> "string", s |-> s]
Bool(b) == [t |-> "boolean", b |-> b]

IsNum(v) == v.t = "number"

\* ToBoolean
Truthy(v) ==
    CASE v.t = "number" -> v.n # 0
      [] v.t = "string" -> v.s # ""
      [] v.t = "boolean" -> v.b
      [] v.t \in {"object", "array"} -> TRUE
      [] OTHER -> FALSE

\* ToNumber on the primitives the scorer meets
ToNumber(v) ==
    CASE v.t = "number" -> v
      [] v.t = "null" -> [t |-> "number", n |-> 0]
      [] v.t = "boolean" -> IF v.b THEN Num(1) ELSE Num(0)
      [] OTHER -> NaN

\* a + b, a and b numbers, null, booleans or undefined
JsAdd(a, b) ==
    LET x == ToNumber(a)
        y == ToNumber(b)
    IN IF IsNum(x) /\ IsNum(y) THEN [t |-> "number", n |-> x.n + y.n] ELSE NaN

\* a * b (the three forms are the same product; they keep it within 32 bits)
JsMul(a, b) ==
    LET x == ToNumber(a)
        y == ToNumber(b)
    IN IF IsNum(x) /\ IsNum(y)
       THEN [t |-> "number",
             n |-> IF y.n % U = 0 THEN x.n * (y.n \div U)
                   ELSE IF x.n % U = 0 THEN (x.n \div U) * y.n
                   ELSE (x.n * y.n) \div U]
       ELSE NaN

\* a / b, b # 0 (the scorer divides by 95 only, and U is a multiple of 4 * 95:
\* the quotient of a multiple of 1/4 is exact)
JsDiv(a, b) ==
    LET x == ToNumber(a)
        y == ToNumber(b)
    IN IF IsNum(x) /\ IsNum(y)
       THEN [t |-> "number",
             n |-> IF y.n % U = 0 THEN x.n \div (y.n \div U) ELSE (x.n * U) \div y.n]
       ELSE NaN

\* a >= b: false as soon as one side is NaN
JsGe(a, b) ==
    LET x == ToNumber(a)
        y == ToNumber(b)
    IN IsNum(x) /\ IsNum(y) /\ x.n >= y.n

\* a <= b
JsLe(a, b) == JsGe(b, a)

\* Math.min(a, b): NaN as soon as one side is NaN
MathMin(a, b) ==
    LET x == ToNumber(a)
        y == ToNumber(b)
    IN IF IsNum(x) /\ IsNum(y) THEN (IF x.n <= y.n THEN x ELSE y) ELSE NaN

\* Math.round(a): the nearest integer, halves towards +Infinity
MathRound(a) ==
    LET x == ToNumber(a)
    IN IF IsNum(x) THEN [t |-> "number", n |-> ((2 * x.n + U) \div (2 * U)) * U] ELSE NaN

(***************************************************************************)
(* Strings: TLA+ strings with JS's toLowerCase and includes.               *)
(***************************************************************************)
Char(s, i) == SubSeq(s, i, i)
UpperChars == "ABCDEFGHIJKLMNOPQRSTUVWXYZ"
LowerChars == "abcdefghijklmnopqrstuvwxyz"
DigitChars == "0123456789"

InChars(c, chars) == \E i \in 1..Len(chars) : Char(chars, i) = c

LowerChar(c) ==
    IF InChars(c, UpperChars)
    THEN Char(LowerChars, CHOOSE i \in 1..Len(UpperChars) : Char(UpperChars, i) = c)
    ELSE c

RECURSIVE toLowerCase(_)
toLowerCase(s) == IF s = "" THEN "" ELSE LowerChar(Char(s, 1)) \o toLowerCase(Tail(s))

\* s.includes(t)
includes(s, t) == \E i \in 0..(Len(s) - Len(t)) : SubSeq(s, i + 1, i + Len(t)) = t

\* s.startsWith(t)
startsWith(s, t) == Len(t) <= Len(s) /\ SubSeq(s, 1, Len(t)) = t

\* s.endsWith(t)
endsWith(s, t) == Len(t) <= Len(s) /\ SubSeq(s, Len(s) - Len(t) + 1, Len(s)) = t

\* \w of a JS regular expression
IsWordChar(c) == InChars(c, UpperChars) \/ InChars(c, LowerChars) \/ InChars(c, DigitChars) \/ c = "_"

\* /\b(w)\b/.test(s): w, a word, stands in s between two word boundaries
matchesWord(s, w) ==
    \E i \in 0..(Len(s) - Len(w)) :
        /\ SubSeq(s, i + 1, i + Len(w)) = w
        /\ (i = 0 \/ ~IsWordChar(Char(s, i)))
        /\ (i + Len(w) = Len(s) \/ ~IsWordChar(Char(s, i + Len(w) + 1)))

(***************************************************************************)
(* JS objects and arrays.  An object keeps its keys in insertion order     *)
(* (the order for...in and Object.entries follow); a missing key reads as  *)
(* undefined.                                                              *)
(***************************************************************************)
Obj(keys, vals) == [t |-> "object", keys |-> keys, vals |-> vals]
Arr(items) == [t |-> "array", items |-> items]
EmptyObj == Obj(<<>>, <<>>)

\* o[k]
Get(o, k) == IF o.t = "object" /\ k \in DOMAIN o.vals THEN o.vals[k] ELSE Undefined

\* Object.values(o)
ObjectValues(o) == [i \in 1..Len(o.keys) |-> o.vals[o.keys[i]]]

MinOf(S) == CHOOSE i \in S : \A j \in S : i <= j

(***************************************************************************)
(* leadScore.js                                                            *)
(***************************************************************************)
industryMap == <<
    [industry |-> "technology",
     keywords |-> <<"software", "tech", "it ", "computer", "digital", "saas", "app">>],
    [industry |-> "professional_services",
     keywords |-> <<"consulting", "legal", "accounting", "financial", "advisory">>],
    [industry |-> "healthcare",
     keywords |-> <<"medical", "health", "clinic", "hospital", "doctor", "dental">>],
    [industry |-> "manufacturing",
     keywords |-> <<"manufacturing", "factory", "industrial", "production">>],
    [industry |-> "retail",
     keywords |-> <<"store", "shop", "retail", "boutique", "market">>] >>

\* the keys for...in goes through: those of an object, none for a number or a boolean
forInKeys(o) == IF o.t = "object" THEN o.keys ELSE <<>>

\* findClosestIndustry(category, industries): the key as a JS string, or null
findClosestIndustry(category, industries) ==
    IF ~Truthy(category) \/ ~Truthy(industries) THEN Null
    ELSE LET categoryLower == toLowerCase(category.s)
             keys == forInKeys(industries)
             direct == {i \in 1..Len(keys) : includes(categoryLower, toLowerCase(keys[i]))}
             fuzzy == {i \in 1..Len(industryMap) :
                          \E k \in 1..Len(industryMap[i].keywords) :
                              includes(categoryLower, industryMap[i].keywords[k])}
         IN IF direct # {} THEN Str(keys[MinOf(direct)])
            ELSE IF fuzzy # {} THEN Str(industryMap[MinOf(fuzzy)].industry)
            ELSE Null

usStates == {"al", "ak", "az", "ar", "ca", "co", "ct", "de", "fl", "ga", "hi", "id", "il",
             "in", "ia", "ks", "ky", "la", "me", "md", "ma", "mi", "mn", "ms", "mo", "mt",
             "ne", "nv", "nh", "nj", "nm", "ny", "nc", "nd", "oh", "ok", "or", "pa", "ri",
             "sc", "sd", "tn", "tx", "ut", "vt", "va", "wa", "wv", "wi", "wy"}

\* determineRegion with the Europe rule tried before the North America rule
determineRegionEuropeFirst(address) ==
    IF ~Truthy(address) THEN "Other"
    ELSE LET addressLower == toLowerCase(address.s)
         IN IF \E w \in {"uk", "united kingdom", "europe", "germany", "france",
                         "spain", "italy"} : includes(addressLower, w)
            THEN "Europe"
            ELSE IF \/ includes(addressLower, "usa")
                    \/ includes(addressLower, "united states")
                    \/ includes(addressLower, "canada")
                    \/ \E st \in usStates : matchesWord(addressLower, st)
            THEN "North America"
            ELSE IF \E w \in {"asia", "china", "japan", "india", "singapore",
                              "australia"} : includes(addressLower, w)
            THEN "APAC"
            ELSE "Other"

\* determineRegion(address): the region name
determineRegion(address) ==
    IF ~Truthy(address) THEN "Other"
    ELSE LET addressLower == toLowerCase(address.s)
         IN IF \/ includes(addressLower, "usa")
               \/ includes(addressLower, "united states")
               \/ includes(addressLower, "canada")
               \/ \E st \in usStates : matchesWord(addressLower, st)
            THEN "North America"
            ELSE IF \E w \in {"uk", "united kingdom", "europe", "germany", "france",
                              "spain", "italy"} : includes(addressLower, w)
            THEN "Europe"
            ELSE IF \E w \in {"asia", "china", "japan", "india", "singapore",
                              "australia"} : includes(addressLower, w)
            THEN "APAC"
            ELSE "Other"

\* getEmployeeRange(count)
getEmployeeRange(count) ==
    IF JsLe(count, Num(10)) THEN "1-10"
    ELSE IF JsLe(count, Num(50)) THEN "11-50"
    ELSE IF JsLe(count, Num(200)) THEN "51-200"
    ELSE IF JsLe(count, Num(500)) THEN "201-500"
    ELSE "500+"

\* dataQualityScore with the validity points given whether or not the field is there
dataQualityScoreFlat(l) ==
    JsAdd(JsAdd(JsAdd(JsAdd(JsAdd(IF Truthy(l.email) THEN Num(10) ELSE Num(0),
                                  IF Truthy(l.emailValid) THEN Num(5) ELSE Num(0)),
                            IF Truthy(l.phone) THEN Num(7) ELSE Num(0)),
                      IF Truthy(l.phoneValid) THEN Num(3) ELSE Num(0)),
                IF Truthy(l.website) THEN Num(5) ELSE Num(0)),
          IF Truthy(l.claimed) THEN Num(5) ELSE Num(0))

\* lines 15-45: the data-quality category
dataQualityScore(l) ==
    LET e == IF Truthy(l.email) THEN (IF Truthy(l.emailValid) THEN Num(15) ELSE Num(10))
             ELSE Num(0)
        p == IF Truthy(l.phone) THEN (IF Truthy(l.phoneValid) THEN Num(10) ELSE Num(7))
             ELSE Num(0)
        w == IF Truthy(l.website) THEN Num(5) ELSE Num(0)
        c == IF Truthy(l.claimed) THEN Num(5) ELSE Num(0)
    IN JsAdd(JsAdd(JsAdd(e, p), w), c)

\* ratingPoints with the lower edge of each band left out of the band
ratingPointsExclusive(l) ==
    IF ~Truthy(l.rating) THEN Num(0)
    ELSE IF ~JsLe(l.rating, Dec(48, 10)) THEN Num(10)
    ELSE IF ~JsLe(l.rating, Dec(45, 10)) THEN Num(8)
    ELSE IF ~JsLe(l.rating, Dec(40, 10)) THEN Num(5)
    ELSE IF ~JsLe(l.rating, Dec(35, 10)) THEN Num(2)
    ELSE Num(0)

\* lines 50-61: the rating band
ratingPoints(l) ==
    IF ~Truthy(l.rating) THEN Num(0)
    ELSE IF JsGe(l.rating, Dec(48, 10)) THEN Num(10)
    ELSE IF JsGe(l.rating, Dec(45, 10)) THEN Num(8)
    ELSE IF JsGe(l.rating, Dec(40, 10)) THEN Num(5)
    ELSE IF JsGe(l.rating, Dec(35, 10)) THEN Num(2)
    ELSE Num(0)

\* lines 63-74: the review-count band
reviewPoints(l) ==
    IF ~Truthy(l.reviewCount) THEN Num(0)
    ELSE IF JsGe(l.reviewCount, Num(100)) THEN Num(10)
    ELSE IF JsGe(l.reviewCount, Num(50)) THEN Num(8)
    ELSE IF JsGe(l.reviewCount, Num(20)) THEN Num(5)
    ELSE IF JsGe(l.reviewCount, Num(10)) THEN Num(3)
    ELSE Num(0)

\* line 79: Object.values(lead.socialLinks).filter((link) => link !== null).length
socialCount(l) ==
    LET values == ObjectValues(l.socialLinks)
    IN Cardinality({i \in 1..Len(values) : values[i] # Null})

\* lines 77-84: hasSocialLinks
hasSocialLinks(l) == Truthy(l.socialLinks) /\ socialCount(l) > 0

\* lines 76-84: the social points, Math.min(socialCount * 1.25, 5)
socialPoints(l) ==
    IF hasSocialLinks(l) THEN MathMin(JsMul(Num(socialCount(l)), Dec(125, 100)), Num(5))
    ELSE Num(0)

\* lines 47-87: the engagement category
engagementScore(l) == JsAdd(JsAdd(ratingPoints(l), reviewPoints(l)), socialPoints(l))

\* industryMatch with a legacy sequence matched on its first term only
industryMatchFirstTerm(category, industries) ==
    IF ~(Truthy(category) /\ Truthy(industries)) THEN Num(0)
    ELSE IF industries.t = "array"
    THEN IF \E i \in 1..Len(industries.items) :
                i = 1 /\ includes(toLowerCase(category.s), toLowerCase(industries.items[i]))
         THEN Num(30) ELSE Num(0)
    ELSE LET industry == findClosestIndustry(category, industries)
         IN IF Truthy(industry) THEN Get(industries, industry.s) ELSE Num(0)

\* lines 92-110: the industry match, what it adds to firmographicScore
industryMatch(category, industries) ==
    IF ~(Truthy(category) /\ Truthy(industries)) THEN Num(0)
    ELSE IF industries.t = "array"
    THEN IF \E i \in 1..Len(industries.items) :
                includes(toLowerCase(category.s), toLowerCase(industries.items[i]))
         THEN Num(30) ELSE Num(0)
    ELSE LET industry == findClosestIndustry(category, industries)
         IN IF Truthy(industry) THEN Get(industries, industry.s) ELSE Num(0)

\* lines 112-130: the location match
locationMatch(address, locations) ==
    IF ~(Truthy(address) /\ Truthy(locations)) THEN Num(0)
    ELSE IF locations.t = "array"
    THEN IF \E i \in 1..Len(locations.items) :
                includes(toLowerCase(address.s), toLowerCase(locations.items[i]))
         THEN Num(30) ELSE Num(0)
    ELSE LET region == determineRegion(address)
         IN IF Truthy(Get(locations, region)) THEN Get(locations, region) ELSE Num(0)

\* lines 132-138: the company size
employeePoints(l, p) ==
    IF ~(Truthy(l.employeeCount) /\ Truthy(p.employeeRanges)) THEN Num(0)
    ELSE LET range == getEmployeeRange(l.employeeCount)
         IN IF Truthy(Get(p.employeeRanges, range)) THEN Get(p.employeeRanges, range)
            ELSE Num(0)

(***************************************************************************)
(* The scorer's inputs: leads and ICPs that conform to the data model.     *)
(***************************************************************************)
SocialKeys == <<"linkedin", "facebook", "twitter", "instagram">>

\* a fully keyed socialLinks mapping whose first n platforms have a URL
SocialLinksOf(n) ==
    Obj(SocialKeys,
        [k \in {SocialKeys[i] : i \in 1..4} |->
            IF \E i \in 1..n : SocialKeys[i] = k THEN Str("https://" \o k \o ".com/acme")
            ELSE Null])

SocialLinksValues == {Undefined} \cup {SocialLinksOf(n) : n \in 0..4}

\* the ICP main.js builds when no targetIndustries is given (main.js lines 61-77)
DefaultICP ==
    [industries |->
        Obj(<<"technology", "professional_services", "healthcare", "manufacturing", "retail">>,
            [technology |-> Num(30), professional_services |-> Num(25),
             healthcare |-> Num(20), manufacturing |-> Num(15), retail |-> Num(10)]),
     locations |->
        Obj(<<"North America", "Europe", "APAC", "Other">>,
            [k \in {"North America", "Europe", "APAC", "Other"} |->
                CASE k = "North America" -> Num(30)
                  [] k = "Europe" -> Num(25)
                  [] k = "APAC" -> Num(20)
                  [] OTHER -> Num(10)]),
     employeeRanges |-> Undefined]

\* the legacy sequence form (leadScore.js lines 96 and 116)
LegacyICP ==
    [industries |-> Arr(<<"Software", "Technology">>),
     locations |-> Arr(<<"San Francisco", "California">>),
     employeeRanges |-> Undefined]

\* calculateLeadScore's default parameter, icp = {}
EmptyICP == [industries |-> Undefined, locations |-> Undefined, employeeRanges |-> Undefined]

\* the mapping form of the comments of leadScore.js lines 104 and 124
PartialICP ==
    [industries |-> Obj(<<"technology", "healthcare">>,
                        [technology |-> Num(30), healthcare |-> Num(20)]),
     locations |-> Obj(<<"North America", "Europe">>,
                       [k \in {"North America", "Europe"} |->
                           IF k = "Europe" THEN Num(25) ELSE Num(30)]),
     employeeRanges |-> Obj(<<"11-50">>, [k \in {"11-50"} |-> Num(10)])]

\* ICPs whose industry mapping has every key findClosestIndustry can return
CompleteICPs == {DefaultICP, LegacyICP, EmptyICP}
AllICPs == CompleteICPs \cup {PartialICP}

CategoryValues == {Null, Str("Software Company"), Str("Clothing store")}
AddressValues == {Null, Str("123 Main St, Austin, TX"), Str("1 Rue de Rivoli, Paris, France")}
RatingValues == {Null, Dec(40, 10), Dec(48, 10)}
ReviewCountValues == {Num(0), Num(20), Num(100)}

ScoreLeads ==
    [email : {Null, Str("info@acme.com")},
     emailValid : {Undefined, Bool(TRUE)},
     phone : {Null, Str("(512) 555-0100")},
     phoneValid : {Undefined, Bool(TRUE)},
     website : {Null, Str("https://acme.com")},
     claimed : {Bool(FALSE), Bool(TRUE)},
     rating : RatingValues,
     reviewCount : ReviewCountValues,
     socialLinks : SocialLinksValues,
     category : CategoryValues,
     address : AddressValues,
     employeeCount : {Undefined}]

\* industryMatch and locationMatch over the inputs drawn below, computed once
industryTable ==
    [c \in CategoryValues, i \in {p.industries : p \in AllICPs} |-> industryMatch(c, i)]
locationTable ==
    [a \in AddressValues, o \in {p.locations : p \in AllICPs} |-> locationMatch(a, o)]

industryPoints(l, p) ==
    IF <<l.category, p.industries>> \in DOMAIN industryTable
    THEN industryTable[l.category, p.industries]
    ELSE industryMatch(l.category, p.industries)

locationPoints(l, p) ==
    IF <<l.address, p.locations>> \in DOMAIN locationTable
    THEN locationTable[l.address, p.locations]
    ELSE locationMatch(l.address, p.locations)

\* firmographicScore without the cap of line 141
firmographicScoreUncapped(l, p) ==
    JsAdd(JsAdd(JsAdd(Num(0), industryPoints(l, p)), locationPoints(l, p)),
          employeePoints(l, p))

\* lines 89-144: the firmographic category, capped at 40
firmographicScore(l, p) ==
    MathMin(JsAdd(JsAdd(JsAdd(Num(0), industryPoints(l, p)), locationPoints(l, p)),
                  employeePoints(l, p)),
            Num(40))

\* normalizedScore without the rescaling of a lead that has no social link
normalizedScoreNoRescale(l, totalScore) == totalScore

\* lines 149-150: the normalisation when no social link was found
normalizedScore(l, totalScore) ==
    LET maxPossibleScore == IF hasSocialLinks(l) THEN Num(100) ELSE Num(95)
    IN IF hasSocialLinks(l) THEN totalScore
       ELSE JsMul(JsDiv(totalScore, maxPossibleScore), Num(100))

\* lines 158-171: the grade of the capped score
gradeOf(cappedScore) ==
    IF JsGe(cappedScore, Num(85)) THEN "A+"
    ELSE IF JsGe(cappedScore, Num(75)) THEN "A"
    ELSE IF JsGe(cappedScore, Num(65)) THEN "B"
    ELSE IF JsGe(cappedScore, Num(55)) THEN "C"
    ELSE IF JsGe(cappedScore, Num(45)) THEN "D"
    ELSE "F"

\* calculateLeadScore(lead, icp)
calculateLeadScore(l, p) ==
    LET dq == dataQualityScore(l)
        eng == engagementScore(l)
        firm == firmographicScore(l, p)
        totalScore == JsAdd(JsAdd(JsAdd(Num(0), dq), eng), firm)
        cappedScore == MathMin(normalizedScore(l, totalScore), Num(100))
    IN [score |-> MathRound(cappedScore),
        grade |-> gradeOf(cappedScore),
        breakdown |-> [dataQuality |-> dq, engagement |-> eng, firmographic |-> firm]]

NotScored == [score |-> Undefined, grade |-> "", breakdown |-> Undefined]

\* the pipeline's variables where no pipeline runs
PipelineUnused ==
    /\ world = <<>>
    /\ config = Null
    /\ scraper = Null
    /\ requests = <<>>
    /\ procs = <<>>
    /\ dataset = <<>>
    /\ stats = Null

(***************************************************************************)
(* The scorer as a one-step machine: Init draws the inputs, Score applies  *)
(* calculateLeadScore to them.                                             *)
(***************************************************************************)
InitScore ==
    /\ lead \in ScoreLeads
    /\ icp \in AllICPs
    /\ scoreResult = NotScored
    /\ calls = <<>>
    /\ PipelineUnused

Score ==
    /\ scoreResult = NotScored
    /\ scoreResult' = calculateLeadScore(lead, icp)
    /\ UNCHANGED <<lead, icp, calls>>
    /\ UNCHANGED pipelineVars

NextScore == Score

SpecScore == InitScore /\ [][NextScore]_vars

\* the same machine over the ICPs whose industry mapping is complete
InitGrade ==
    /\ lead \in ScoreLeads
    /\ icp \in CompleteICPs
    /\ scoreResult = NotScored
    /\ calls = <<>>
    /\ PipelineUnused

SpecGrade == InitGrade /\ [][NextScore]_vars

(***************************************************************************)
(* Claims about the scorer                                                 *)
(***************************************************************************)
Scored == scoreResult # NotScored
Grades == {"A+", "A", "B", "C", "D", "F"}

\* the lead has at least one social link that is not null
HasNonNullSocialLink(l) ==
    /\ l.socialLinks.t = "object"
    /\ \E k \in DOMAIN l.socialLinks.vals : l.socialLinks.vals[k] # Null

\* C1: for every conforming lead and ICP the returned score is an integer in
\* 0..100 and the grade is one of A+, A, B, C, D, F.
C1_ScoreIntegerInRange ==
    Scored =>
        /\ IsNum(scoreResult.score)
        /\ scoreResult.score.n % U = 0
        /\ 0 <= scoreResult.score.n /\ scoreResult.score.n <= 100 * U
        /\ scoreResult.grade \in Grades

\* C2: the grade is a function of the returned (rounded) score: A+ iff score >= 85,
\* A iff 75..84, B iff 65..74, C iff 55..64, D iff 45..54, F iff score <= 44.
C2_GradeFollowsRoundedScore ==
    Scored =>
        LET sc == scoreResult.score
            g == scoreResult.grade
        IN /\ (g = "A+") <=> JsGe(sc, Num(85))
           /\ (g = "A") <=> (JsGe(sc, Num(75)) /\ JsLe(sc, Num(84)))
           /\ (g = "B") <=> (JsGe(sc, Num(65)) /\ JsLe(sc, Num(74)))
           /\ (g = "C") <=> (JsGe(sc, Num(55)) /\ JsLe(sc, Num(64)))
           /\ (g = "D") <=> (JsGe(sc, Num(45)) /\ JsLe(sc, Num(54)))
           /\ (g = "F") <=> JsLe(sc, Num(44))

\* the raw total of the returned breakdown
BreakdownTotal ==
    JsAdd(JsAdd(scoreResult.breakdown.dataQuality, scoreResult.breakdown.engagement),
          scoreResult.breakdown.firmographic)

\* s is num/den rounded to the nearest integer (halves up): s - 1/2 <= num/den < s + 1/2
IsRounded(s, num, den) == 2 * den * s - den <= 2 * num /\ 2 * num < 2 * den * s + den

\* C3: with total = dataQuality + engagement + firmographic, the score is
\* round(min(total / 95 * 100, 100)) when the lead has no non-null social link and
\* round(min(total, 100)) when it has one; no social link and a total of 60 give 63.
C3_Normalisation ==
    Scored =>
        LET total == BreakdownTotal
            sc == scoreResult.score
            Min2(a, b) == IF a <= b THEN a ELSE b
        IN IF ~IsNum(total) THEN sc = NaN
           ELSE /\ IsNum(sc) /\ sc.n % U = 0
                /\ IF HasNonNullSocialLink(lead)
                   THEN IsRounded(sc.n \div U, Min2(total.n, 100 * U), U)
                   ELSE IsRounded(sc.n \div U, Min2(total.n * 100, 100 * 95 * U), 95 * U)
                /\ (~HasNonNullSocialLink(lead) /\ total = Num(60)) => sc = Num(63)

\* a scored lead without social links whose raw total is 60
C3_Witness ==
    /\ Scored
    /\ ~HasNonNullSocialLink(lead)
    /\ BreakdownTotal = Num(60)
    /\ scoreResult.score = Num(63)

(***************************************************************************)
(* website.js (src/unnamed/part_000): the text mining of one page          *)
(***************************************************************************)
IsLetter(c) == InChars(c, UpperChars) \/ InChars(c, LowerChars)
IsDigit(c) == InChars(c, DigitChars)
\* [a-zA-Z0-9._%+-]
IsLocalChar(c) == IsLetter(c) \/ IsDigit(c) \/ InChars(c, "._%+-")
\* [a-zA-Z0-9.-]
IsDomainChar(c) == IsLetter(c) \/ IsDigit(c) \/ InChars(c, ".-")

\* the end of the longest run of characters satisfying P that starts at i (i - 1: none)
RunEnd(s, i, P(_)) ==
    CHOOSE j \in (i - 1)..Len(s) :
        /\ \A k \in i..j : P(Char(s, k))
        /\ (j = Len(s) \/ ~P(Char(s, j + 1)))

\* The tail @[a-zA-Z0-9.-]+\.[a-zA-Z]{2,} of both patterns, the "@" at position a:
\* the greedy domain gives back characters until a dot followed by two letters or
\* more is found; with bounded, the letters must also end at a word boundary (\b).
\* The end of the match, 0 when there is none.
DomainMatchEnd(s, a, bounded) ==
    LET e == RunEnd(s, a + 1, IsDomainChar)
        TldEnd(d) == RunEnd(s, d + 2, IsLetter)
        ok == {d \in (a + 1)..(e - 1) :
                  /\ Char(s, d + 1) = "."
                  /\ TldEnd(d) >= d + 3
                  /\ (bounded => (TldEnd(d) = Len(s) \/ ~IsWordChar(Char(s, TldEnd(d) + 1))))}
    IN IF a > Len(s) \/ Char(s, a) # "@" \/ ok = {} THEN 0
       ELSE TldEnd(CHOOSE d \in ok : \A x \in ok : x <= d)

\* line 43, emailRegex = /[a-zA-Z0-9._%+-]+@[a-zA-Z0-9.-]+\.[a-zA-Z]{2,}/ tried at
\* position i: the end of the match, 0 when there is none
emailRegexEnd(s, i) ==
    LET j == RunEnd(s, i, IsLocalChar)
    IN IF j < i THEN 0 ELSE DomainMatchEnd(s, j + 1, FALSE)

\* line 118, pageText.match(emailRegex) with the g flag: every match, left to right
\* (<<>> stands for the null of a text with no match)
RECURSIVE matchAll(_, _)
matchAll(s, from) ==
    LET starts == {i \in from..Len(s) : emailRegexEnd(s, i) > 0}
    IN IF starts = {} THEN <<>>
       ELSE LET i == MinOf(starts)
            IN <<SubSeq(s, i, emailRegexEnd(s, i))>> \o matchAll(s, emailRegexEnd(s, i) + 1)

imageExtensions == {"png", "jpg", "jpeg", "gif", "svg", "webp", "pdf", "doc", "docx"}

\* lines 122-129: the pre-filter keeps the candidate
passesPreFilter(email) ==
    LET lowerEmail == toLowerCase(email)
    IN /\ ~includes(lowerEmail, "@2x")
       /\ ~includes(lowerEmail, "@3x")
       /\ ~\E x \in imageExtensions : endsWith(lowerEmail, "." \o x)

\* line 143: email.replace(/^[\d\s\-\.\(\)]+/, '')
IsStripChar(c) == IsDigit(c) \/ InChars(c, " -.()")
stripLeading(email) == SubSeq(email, RunEnd(email, 1, IsStripChar) + 1, Len(email))

\* line 147: cleaned.match(/[a-zA-Z][a-zA-Z0-9._%+-]*@[a-zA-Z0-9.-]+\.[a-zA-Z]{2,}\b/),
\* the first match or "" (for null)
cleanedMatch(cleaned) ==
    LET EndAt(i) == IF IsLetter(Char(cleaned, i))
                    THEN DomainMatchEnd(cleaned, RunEnd(cleaned, i + 1, IsLocalChar) + 1, TRUE)
                    ELSE 0
        starts == {i \in 1..Len(cleaned) : EndAt(i) > 0}
    IN IF starts = {} THEN "" ELSE SubSeq(cleaned, MinOf(starts), EndAt(MinOf(starts)))

\* lines 141-156: the map step, "" for null
cleanEmail(email) == cleanedMatch(stripLeading(email))

blacklistedDomains == {"example.com", "domain.com", "yourdomain.com", "yoursite.com",
    "email.com", "test.com", "sample.com", "wix.com", "wordpress.com", "squarespace.com",
    "weebly.com", "sentry.io", "gravatar.com", "w3.org", "placeholder.com",
    "yourcompany.com", "companyname.com", "schema.org", "javascript:", "mailto:",
    ".png", ".jpg", ".gif", ".svg"}

\* email.split('@')
RECURSIVE split(_, _)
split(s, sep) ==
    LET at == {i \in 1..Len(s) : Char(s, i) = sep}
    IN IF at = {} THEN <<s>>
       ELSE <<SubSeq(s, 1, MinOf(at) - 1)>> \o split(SubSeq(s, MinOf(at) + 1, Len(s)), sep)

\* lines 157-173: the filter step keeps the cleaned candidate
isValidEmailUnlisted(email) ==
    /\ email # ""
    /\ LET parts == split(email, "@")
       IN /\ Len(parts) = 2
          /\ parts[1] # "" /\ parts[2] # ""
          /\ Len(parts[1]) <= 64 /\ Len(parts[2]) <= 255
isValidEmail(email) ==
    /\ email # ""
    /\ LET parts == split(email, "@")
       IN /\ Len(parts) = 2
          /\ parts[1] # "" /\ parts[2] # ""
          /\ Len(parts[1]) <= 64 /\ Len(parts[2]) <= 255
          /\ ~\E b \in blacklistedDomains : includes(toLowerCase(parts[2]), b)

priorityPrefixes == <<"info@", "contact@", "hello@", "sales@", "support@", "admin@", "office@">>

\* line 194: the candidate starts with one of the priority prefixes
hasPriorityPrefixInfoOnly(email) == startsWith(toLowerCase(email), priorityPrefixes[1])
hasPriorityPrefix(email) ==
    \E i \in 1..Len(priorityPrefixes) : startsWith(toLowerCase(email), priorityPrefixes[i])

\* lines 118-173: the cleaned, validated candidates of a page text, in document order
cleanedEmails(pageText) ==
    LET rawEmails == SelectSeq(matchAll(pageText, 1), passesPreFilter)
        mapped == [i \in 1..Len(rawEmails) |-> cleanEmail(rawEmails[i])]
    IN SelectSeq(mapped, isValidEmail)

\* lines 181-197: priorityEmail || cleanedEmails[0], of a non-empty candidate list
selectEmailFirst(candidates) == candidates[1]
selectEmail(candidates) ==
    LET priority == {i \in 1..Len(candidates) : hasPriorityPrefix(candidates[i])}
    IN IF priority # {} THEN candidates[MinOf(priority)] ELSE candidates[1]

(***************************************************************************)
(* website.js: the anchors of one page                                     *)
(***************************************************************************)
EmptySocialLinks ==
    Obj(SocialKeys, [k \in {SocialKeys[i] : i \in 1..4} |-> Null])

\* lines 95-111: one anchor of allLinks.each, on the accumulator found
scanAnchorLastMatch(found, href) ==
    LET hrefLower == toLowerCase(href)
        Hit(k) ==
            CASE k = "linkedin" -> includes(hrefLower, "linkedin.com")
              [] k = "facebook" -> includes(hrefLower, "facebook.com") \/ includes(hrefLower, "fb.com")
              [] k = "twitter" -> includes(hrefLower, "twitter.com") \/ includes(hrefLower, "x.com")
              [] k = "instagram" -> includes(hrefLower, "instagram.com")
    IN IF href = "" THEN found
       ELSE [found EXCEPT !.vals =
                [k \in DOMAIN found.vals |-> IF Hit(k) THEN Str(href) ELSE found.vals[k]]]
scanAnchor(found, href) ==
    LET hrefLower == toLowerCase(href)
        Hit(k) ==
            CASE k = "linkedin" -> includes(hrefLower, "linkedin.com")
              [] k = "facebook" -> includes(hrefLower, "facebook.com") \/ includes(hrefLower, "fb.com")
              [] k = "twitter" -> includes(hrefLower, "twitter.com") \/ includes(hrefLower, "x.com")
              [] k = "instagram" -> includes(hrefLower, "instagram.com")
    IN IF href = "" THEN found
       ELSE [found EXCEPT !.vals =
                [k \in DOMAIN found.vals |->
                    IF ~Truthy(found.vals[k]) /\ Hit(k) THEN Str(href) ELSE found.vals[k]]]

\* lines 93-112: allLinks.each over the anchors of the page, in document order
RECURSIVE scanSocialLinks(_, _)
scanSocialLinks(found, anchors) ==
    IF anchors = <<>> THEN found
    ELSE scanSocialLinks(scanAnchor(found, Head(anchors)), Tail(anchors))

\* lines 212-216: the contact links of the page, at most one
contactLinks(anchors) ==
    LET Selected(h) == includes(h, "contact") \/ includes(h, "about") \/ includes(h, "team")
        Kept(h) == h # "" /\ ~startsWith(h, "#") /\ ~startsWith(h, "mailto:")
        hrefs == SelectSeq(SelectSeq(anchors, Selected), Kept)
    IN SubSeq(hrefs, 1, IF Len(hrefs) < 1 THEN Len(hrefs) ELSE 1)

\* the scheme and host of an absolute URL, "https://acme.com/x" -> "https://acme.com"
originOf(url) ==
    LET start == IF startsWith(url, "https://") THEN 9 ELSE 8
        slashes == {i \in start..Len(url) : Char(url, i) = "/"}
    IN IF slashes = {} THEN url ELSE SubSeq(url, 1, MinOf(slashes) - 1)

isAbsoluteUrl(link) == startsWith(link, "http://") \/ startsWith(link, "https://")

\* new URL(link, base) throws: an absolute link without a host
isInvalidUrl(link) == link \in {"http://", "https://"}

\* line 220: new URL(link, websiteUrl).href, websiteUrl an origin
resolveUrl(link, base) ==
    IF isAbsoluteUrl(link) THEN link
    ELSE IF startsWith(link, "/") THEN originOf(base) \o link
    ELSE originOf(base) \o "/" \o link

\* the host of an absolute URL
hostOf(url) ==
    LET o == originOf(url)
    IN SubSeq(o, IF startsWith(o, "https://") THEN 9 ELSE 8, Len(o))

\* the last two labels of a host
domainOf(host) ==
    LET labels == split(host, ".")
        n == Len(labels)
    IN IF n <= 2 THEN host ELSE labels[n - 1] \o "." \o labels[n]

\* enqueueLinks' strategy 'same-domain'
sameDomain(url, pageUrl) == domainOf(hostOf(url)) = domainOf(hostOf(pageUrl))

\* the request queue's uniqueKey of a URL: the URL without its trailing slash
uniqueKey(url) ==
    IF Len(url) > 0 /\ Char(url, Len(url)) = "/" THEN SubSeq(url, 1, Len(url) - 1) ELSE url

(***************************************************************************)
(* The websites the resolver is run on.  A site is its URL (a JS value)    *)
(* and the pages it serves; a page is its anchors' hrefs in document order *)
(* and the text of its body.  A URL the site does not serve fails to load. *)
(***************************************************************************)
Page(anchors, text) == [anchors |-> anchors, text |-> text]

HomeAnchors == {
    <<>>,
    <<"https://www.facebook.com/acme", "/contact">>,
    <<"#about", "mailto:team@acme.com", "https://www.LinkedIn.com/company/acme",
      "https://linkedin.com/company/other", "/about-us", "/contact">> }

HomeTexts == {
    "Welcome to Acme",
    "Contact: support@acme.com or info@acme.com",
    "Built with webmaster@wix.com",
    "random@acme.com sales@acme.com",
    "Call 206-2832lauraeason@acme.org now",
    "logo@2x.png _123@acme.com" }

ContactAnchors == {
    <<>>,
    <<"/team", "https://fb.com/acme.contact", "https://instagram.com/acme">> }

ContactTexts == {
    "Our team",
    "Office@Acme.co.uk. or jane.doe@acme.co.uk",
    "Admin@WIX.COM",
    "abcdefghijklmnopqrstuvwxyzabcdefghijklmnopqrstuvwxyzabcdefghijklmnopq@acme.com" }

AcmeUrl == "https://acme.com"

SiteOf(home, contact) ==
    [url |-> Str(AcmeUrl),
     pages |-> (AcmeUrl :> home) @@ ((AcmeUrl \o "/contact") :> contact)
               @@ ((AcmeUrl \o "/about-us") :> contact)]

ResolveSites ==
    {SiteOf(Page(ha, ht), Page(ca, ct)) :
        ha \in HomeAnchors, ht \in HomeTexts, ca \in ContactAnchors, ct \in ContactTexts}

\* extractEmailFromWebsite called without a URL
NoSite == [url |-> Null, pages |-> <<>>]

\* homepage texts with an address and the text before and after it
AdjacentTexts == {
    [before |-> "", address |-> "info@acme.com", after |-> "Copyright 2024"],
    [before |-> "Email: ", address |-> "sales@acme.io", after |-> "Call us"],
    [before |-> "Write to ", address |-> "jane@acme.co.uk", after |-> " or call"],
    [before |-> "", address |-> "hello@acme.com", after |-> ". All rights reserved"] }

AdjacentSites ==
    {SiteOf(Page(ha, t.before \o t.address \o t.after), Page(ca, "Our team")) :
        ha \in HomeAnchors, t \in AdjacentTexts, ca \in ContactAnchors}

AllTexts ==
    HomeTexts \cup ContactTexts \cup {t.before \o t.address \o t.after : t \in AdjacentTexts}
\* homepages whose contact-like links differ in place, domain and letter case
SecondaryAnchors == {
    <<"/contact">>,
    <<"#team", "mailto:about@acme.com", "/about-us">>,
    <<"https://fb.com/acme.contact", "/contact">>,
    <<"/Contact">> }

SecondarySites ==
    {SiteOf(Page(ha, ht), Page(<<>>, ct)) :
        ha \in SecondaryAnchors, ht \in {"Welcome to Acme", "random@acme.com sales@acme.com"},
        ct \in {"Our team", "Office@Acme.co.uk. or jane.doe@acme.co.uk"}}

AllAnchors ==
    HomeAnchors \cup ContactAnchors \cup {<<"https://instagram.com/acme">>}
        \cup SecondaryAnchors

\* cleanedEmails over the texts above, computed once
cleanedEmailsTable == [t \in AllTexts |-> cleanedEmails(t)]
candidatesOf(text) == cleanedEmailsTable[text]

\* lines 175-205: the email taken from the candidates, null when there is none
emailAmong(candidates) ==
    IF candidates = <<>> THEN Null ELSE Str(selectEmail(candidates))
emailOfPage(text) == emailAmong(candidatesOf(text))

\* scanSocialLinks and contactLinks over the anchors above, computed once
FoundAfter(F) == F \cup {scanSocialLinks(f, a) : f \in F, a \in AllAnchors}
socialTable ==
    [f \in FoundAfter(FoundAfter({EmptySocialLinks})), a \in AllAnchors |->
        scanSocialLinks(f, a)]
socialLinksAfter(found, anchors) == socialTable[found, anchors]
contactTable == [a \in AllAnchors |-> contactLinks(a)]
contactLinksOf(anchors) == contactTable[anchors]

(***************************************************************************)
(* website.js: one call of extractEmailFromWebsite.  The call owns its     *)
(* foundEmail, foundSocialLinks and visitedUrls, a request queue of its    *)
(* own and a CheerioCrawler of concurrency one; the 45 s timer races the   *)
(* crawl and is never cleared.                                             *)
(***************************************************************************)
MaxLeads == 2
Slots == 1..MaxLeads

maxPagesToVisit == 2
maxRequestRetries == 1

Pending == [t |-> "pending"]
Result(email, socialLinks) == [t |-> "result", email |-> email, socialLinks |-> socialLinks]

\* lines 10 and 27: the literal result with no email and four null links
AllNullResult == Result(Null, EmptySocialLinks)

Request(url) == [url |-> url, retryCount |-> 0]

\* a slot before its call: the locals of lines 36-40 and the bookkeeping of
\* the crawler; scans, enqueues, foundOn, failures and linksAtSettle (the
\* links found when the race settled) record what happened
IdleCall ==
    [pc |-> "idle", site |-> NoSite, timer |-> "unset",
     outcome |-> Pending, settledBy |-> "none", inner |-> Pending,
     foundEmail |-> Null, foundSocialLinks |-> EmptySocialLinks, visitedUrls |-> {},
     requestQueue |-> <<>>, queuedKeys |-> {}, handledRequestsCount |-> 0,
     aborted |-> FALSE,
     scans |-> <<>>, enqueues |-> <<>>, foundOn |-> "", failures |-> {},
     linksAtSettle |-> EmptySocialLinks]

\* lines 17-28: the awaited race settles once; later settlements are ignored
settleLast(call, by, value) ==
    [call EXCEPT !.outcome = value, !.settledBy = by,
                 !.linksAtSettle = call.foundSocialLinks]
settle(call, by, value) ==
    IF call.outcome # Pending THEN call
    ELSE [call EXCEPT !.outcome = value, !.settledBy = by,
                      !.linksAtSettle = call.foundSocialLinks]

\* extractEmailWithCrawler returns value: the race resolves with it
innerReturns(call, value) ==
    settle([call EXCEPT !.pc = "returned", !.inner = value], "inner", value)

\* extractEmailWithCrawler rejects: the catch of lines 23-28 answers
innerRejects(call, why) ==
    settle([call EXCEPT !.pc = "returned", !.failures = @ \cup {why}], "catch", AllNullResult)

RemoveAt(q, i) == SubSeq(q, 1, i - 1) \o SubSeq(q, i + 1, Len(q))

\* the crawler takes requests while the queue has one, fewer than
\* maxRequestsPerCrawl requests are handled and the pool is not aborted
CrawlerActive(call) ==
    /\ call.pc = "crawling"
    /\ call.requestQueue # <<>>
    /\ call.handledRequestsCount < maxPagesToVisit
    /\ ~call.aborted

\* the request at i was handled: it leaves the queue and counts
requestHandled(call, i) ==
    [call EXCEPT !.requestQueue = RemoveAt(@, i),
                 !.handledRequestsCount = @ + 1]

\* the request at i errored: it is reclaimed while it has a retry left,
\* otherwise failedRequestHandler (lines 237-239) logs it and it counts
requestErrored(call, i, why) ==
    LET req == call.requestQueue[i]
    IN IF req.retryCount < maxRequestRetries
       THEN [call EXCEPT !.requestQueue =
                RemoveAt(@, i) \o <<[req EXCEPT !.retryCount = @ + 1]>>]
       ELSE [requestHandled(call, i) EXCEPT !.failures = @ \cup {why}]

\* line 209: the page is the first one visited
shouldEnqueueAnyPage(visited) == TRUE
shouldEnqueue(visited) == Cardinality(visited) = 1

\* lines 218-229: the links of contactLinks handed to enqueueLinks, which
\* keeps a URL of the page's domain that the queue has not seen
enqueueContactLinks(call, url, links) ==
    LET link == links[1]
        absoluteUrl == resolveUrl(link, call.site.url.s)
    IN IF links = <<>> \/ isInvalidUrl(link) \/ absoluteUrl \in call.visitedUrls
          \/ ~sameDomain(absoluteUrl, url) \/ uniqueKey(absoluteUrl) \in call.queuedKeys
       THEN call
       ELSE [call EXCEPT
                !.requestQueue = @ \o <<Request(absoluteUrl)>>,
                !.queuedKeys = @ \cup {uniqueKey(absoluteUrl)},
                !.enqueues = @ \o <<[url |-> absoluteUrl, from |-> url,
                                     visited |-> Cardinality(call.visitedUrls),
                                     found |-> call.foundEmail]>>]

Faults == {"none", "throw", "stallBefore", "stallAfter"}

\* lines 88-112: the page is visited and its anchors are scanned for social links
scanLinks(call, url, page) ==
    [call EXCEPT
        !.visitedUrls = @ \cup {url},
        !.foundSocialLinks = socialLinksAfter(@, page.anchors),
        !.scans = @ \o <<[url |-> url, found |-> call.foundEmail]>>]

\* lines 114-231 on the scanned page, email the one its text yields
searchEmail(scanned, url, page, email, fault) ==
    IF fault = "throw" THEN [scanned EXCEPT !.failures = @ \cup {"parse"}]
    ELSE IF Truthy(email)
    THEN [scanned EXCEPT !.foundEmail = email, !.foundOn = url, !.aborted = TRUE]
    ELSE IF shouldEnqueue(scanned.visitedUrls) /\ fault # "stallBefore"
    THEN enqueueContactLinks(scanned, url, contactLinksOf(page.anchors))
    ELSE scanned

\* lines 85-235 on a loaded page.  fault "throw": the text extraction of
\* line 115 throws into the catch of line 232; "stallBefore"/"stallAfter":
\* the handler is still awaiting enqueueLinks at its 30 s timeout, the
\* request not yet / already added
handlePage(call, url, page, fault) ==
    IF Truthy(call.foundEmail) THEN call
    ELSE searchEmail(scanLinks(call, url, page), url, page, emailOfPage(page.text), fault)

\* lines 218-222: enqueueLinks is called on a link
linkAwaited(call, url, links) ==
    /\ links # <<>>
    /\ ~isInvalidUrl(links[1])
    /\ resolveUrl(links[1], call.site.url.s) \notin call.visitedUrls \cup {url}

\* the handler reaches the await of line 222
awaitsEnqueue(call, url, page) ==
    /\ ~Truthy(call.foundEmail)
    /\ ~Truthy(emailOfPage(page.text))
    /\ Cardinality(call.visitedUrls \cup {url}) = 1
    /\ linkAwaited(call, url, contactLinksOf(page.anchors))


\* line 9-21, up to the first await
extractEmailFromWebsite(c, site) ==
    /\ calls[c].pc = "idle"
    /\ calls' = [calls EXCEPT ![c] =
          IF ~Truthy(site.url)
          THEN settle([@ EXCEPT !.pc = "returned", !.site = site], "noUrl", AllNullResult)
          ELSE [@ EXCEPT !.pc = "opening", !.site = site, !.timer = "armed"]]

\* line 75, and the start request of line 243
openRequestQueue(c) ==
    /\ calls[c].pc = "opening"
    /\ \E ok \in BOOLEAN :
        LET websiteUrl == calls[c].site.url.s
        IN calls' = [calls EXCEPT ![c] =
            IF ok
            THEN [@ EXCEPT !.pc = "crawling",
                           !.requestQueue = <<Request(websiteUrl)>>,
                           !.queuedKeys = {uniqueKey(websiteUrl)}]
            ELSE innerRejects(@, "queue")]

\* a request's page does not load: network error, timeout, HTTP error or a
\* body that is not HTML
navigationFails(c) ==
    /\ CrawlerActive(calls[c])
    /\ \E i \in 1..Len(calls[c].requestQueue) :
        calls' = [calls EXCEPT ![c] = requestErrored(@, i, "fetch")]

\* the page of the request at i loads, and the handler can stall only
\* where it awaits
handles(call, i, url, fault) ==
    /\ url \in DOMAIN call.site.pages
    /\ fault \in {"stallBefore", "stallAfter"} => awaitsEnqueue(call, url, call.site.pages[url])

\* the request at i after its handler: a stalled handler is timed out, which
\* errors the request
finished(after, i, fault) ==
    IF fault \in {"stallBefore", "stallAfter"}
    THEN requestErrored(after, i, "handlerTimeout")
    ELSE requestHandled(after, i)
handled(call, i, url, fault) ==
    finished(handlePage(call, url, call.site.pages[url], fault), i, fault)

\* a request's page loads and requestHandler runs on it
requestHandlerSharedLinks(c) ==
    /\ CrawlerActive(calls[c])
    /\ \E i \in 1..Len(calls[c].requestQueue), fault \in Faults :
        /\ handles(calls[c], i, calls[c].requestQueue[i].url, fault)
        /\ calls' = [d \in Slots |->
              IF d = c THEN handled(calls[c], i, calls[c].requestQueue[i].url, fault)
              ELSE [calls[d] EXCEPT !.foundSocialLinks =
                      handled(calls[c], i, calls[c].requestQueue[i].url, fault).foundSocialLinks]]
requestHandler(c) ==
    /\ CrawlerActive(calls[c])
    /\ \E i \in 1..Len(calls[c].requestQueue), fault \in Faults :
        /\ handles(calls[c], i, calls[c].requestQueue[i].url, fault)
        /\ calls' = [calls EXCEPT ![c] = handled(@, i, @.requestQueue[i].url, fault)]

\* line 243: crawler.run resolves once the crawler takes no more requests
crawlerRunResolves(c) ==
    /\ calls[c].pc = "crawling"
    /\ ~CrawlerActive(calls[c])
    /\ calls' = [calls EXCEPT ![c].pc = "dropping"]

\* line 250: what the catch of crawler.run returns
crawlerFailureResultWithEmail(call) == Result(call.foundEmail, call.foundSocialLinks)
crawlerFailureResult(call) == Result(Null, call.foundSocialLinks)

\* lines 244-251: crawler.run rejects
crawlerRunRejects(c) ==
    /\ calls[c].pc = "crawling"
    /\ calls' = [calls EXCEPT ![c] =
          innerReturns([@ EXCEPT !.failures = @ \cup {"crawler"}],
                       crawlerFailureResult(@))]

\* lines 254-266: the queue is dropped, a failure of the drop being only
\* logged, and the findings are returned
dropRequestQueue(c) ==
    /\ calls[c].pc = "dropping"
    /\ calls' = [calls EXCEPT ![c] =
          innerReturns(@, Result(@.foundEmail, @.foundSocialLinks))]

\* lines 23-27: what the catch returns when the timer won the race
timeoutResultWithLinks(call) == Result(Null, call.foundSocialLinks)
timeoutResult(call) == AllNullResult

\* lines 13-15: the 45 s timer fires while the race is open; fired after the
\* race has settled its rejection is ignored, which leaves no trace
timerFires(c) ==
    /\ calls[c].timer = "armed"
    /\ calls[c].outcome = Pending
    /\ calls' = [calls EXCEPT ![c] =
          settle([@ EXCEPT !.timer = "fired", !.failures = @ \cup {"timeout"}],
                 "timer", timeoutResult(@))]

\* lines 13-20: the timer fires after the race has settled: its rejection
\* reaches a race that is already decided and is handled there
timerFiresLate(c) ==
    /\ calls[c].timer = "armed"
    /\ calls[c].outcome # Pending
    /\ calls' = [calls EXCEPT ![c] =
          settle([@ EXCEPT !.timer = "lapsed"], "timer", timeoutResult(@))]

ResolverStep(c) ==
    \/ openRequestQueue(c)
    \/ navigationFails(c)
    \/ requestHandler(c)
    \/ crawlerRunResolves(c)
    \/ crawlerRunRejects(c)
    \/ dropRequestQueue(c)
    \/ timerFires(c)

\* the resolver called directly, on every site and without a URL
ScorerUnused ==
    /\ lead = Null
    /\ icp = Null
    /\ scoreResult = NotScored

InitResolve ==
    /\ ScorerUnused
    /\ PipelineUnused
    /\ calls = [c \in Slots |-> IdleCall]

DirectCall ==
    /\ \E site \in ResolveSites \cup {NoSite} : extractEmailFromWebsite(1, site)
    /\ UNCHANGED scorerVars
    /\ UNCHANGED pipelineVars

ResolverRuns ==
    /\ \E c \in Slots : ResolverStep(c)
    /\ UNCHANGED scorerVars
    /\ UNCHANGED pipelineVars

NextResolve == DirectCall \/ ResolverRuns

SpecResolve == InitResolve /\ [][NextResolve]_vars

(***************************************************************************)
(* main.js and googleMaps.js: the run.  scrapeGoogleMaps collects the      *)
(* listing cards, then hands leads to processAndSaveLead: every card in    *)
(* fast mode, otherwise what the detail crawler makes of each card's page. *)
(***************************************************************************)
detailConcurrency == 2
detailRetries == 2

JsOr(a, b) == IF Truthy(a) THEN a ELSE b

\* o?.[k]
OptGet(o, k) == IF o \in {Undefined, Null} THEN Undefined ELSE Get(o, k)

\* String.prototype.trim
trim(str) ==
    LET kept == {i \in 1..Len(str) : Char(str, i) \notin {" ", "\t", "\n", "\r"}}
    IN IF kept = {} THEN "" ELSE SubSeq(str, MinOf(kept), CHOOSE i \in kept : \A j \in kept : i >= j)

\* a business as Google Maps shows it: the listing card, the detail page
\* and, for its website, the site the resolver will meet
Business(name, rating, reviewCount, phone, site, address, category, claimed, mapsSocial) ==
    [businessName |-> Str(name), googleMapsUrl |-> Str("https://www.google.com/maps/place/" \o name),
     rating |-> rating, reviewCount |-> reviewCount, phone |-> phone,
     website |-> site.url, site |-> site, address |-> address, category |-> category,
     claimed |-> claimed, socialLinks |-> mapsSocial]

BusinessWithSite(site) ==
    Business("Acme", Dec(48, 10), Num(100), Str("(512) 555-0100"), site,
             Str("123 Main St, Austin, TX"), Str("Software Company"), TRUE, SocialLinksOf(1))

BusinessWithoutSite ==
    Business("Corner", Null, Num(0), Null, NoSite, Null, Str("Clothing store"), FALSE,
             EmptySocialLinks)

\* a site whose homepage gives an email and a social link
SiteWithEmail ==
    SiteOf(Page(<<"https://instagram.com/acme">>, "Contact: support@acme.com or info@acme.com"),
           Page(<<>>, "Our team"))

\* a site whose homepage has no email, no social link and no contact link
SiteBare == SiteOf(Page(<<>>, "Welcome to Acme"), Page(<<>>, "Our team"))

PipelineBusinesses ==
    {BusinessWithSite(SiteWithEmail), BusinessWithSite(SiteBare), BusinessWithoutSite}

\* main.js lines 31-80: the input by scraping mode and the user's switches
Config(fastMode, hasWebsite, extractEmails, enableScoring) ==
    [fastMode |-> fastMode, skipClosedPlaces |-> TRUE,
     filters |-> [hasWebsite |-> hasWebsite, claimedListing |-> FALSE, hasSocialMedia |-> FALSE],
     extractEmails |-> extractEmails, enableScoring |-> enableScoring,
     idealCustomerProfile |-> DefaultICP]

Configs == {
    Config(TRUE, FALSE, FALSE, FALSE),     \* scrapingMode basic
    Config(FALSE, TRUE, TRUE, TRUE),       \* scrapingMode enriched, defaults
    Config(FALSE, FALSE, TRUE, TRUE),      \* enriched, hasWebsite: false
    Config(FALSE, FALSE, FALSE, FALSE) }   \* enriched, extractEmails and enableScoring: false

\* a lead object: a field it does not have is undefined; b names the business
NoLead(b) ==
    [b |-> b, businessName |-> Undefined, googleMapsUrl |-> Undefined, rating |-> Undefined,
     reviewCount |-> Undefined, phone |-> Undefined, website |-> Undefined,
     address |-> Undefined, category |-> Undefined, claimed |-> Undefined,
     socialLinks |-> Undefined, error |-> Undefined, email |-> Undefined,
     emailValid |-> Undefined, phoneValid |-> Undefined, employeeCount |-> Undefined,
     leadScore |-> Undefined, leadGrade |-> Undefined, scoreBreakdown |-> Undefined,
     enrichmentError |-> Undefined, scrapedAt |-> Undefined, searchQuery |-> Undefined]

\* googleMaps.js lines 321-326: a listing card
cardOf(b) ==
    [NoLead(b) EXCEPT !.businessName = world[b].businessName,
                      !.googleMapsUrl = world[b].googleMapsUrl,
                      !.rating = world[b].rating,
                      !.reviewCount = world[b].reviewCount]

\* googleMaps.js lines 757-770: the lead of a detail page
fullLead(b) ==
    [cardOf(b) EXCEPT !.phone = world[b].phone,
                      !.website = world[b].website,
                      !.address = world[b].address,
                      !.category = world[b].category,
                      !.claimed = Bool(world[b].claimed
                                        \/ (Truthy(world[b].website) /\ Truthy(world[b].phone))),
                      !.socialLinks = world[b].socialLinks]

\* googleMaps.js lines 827-839: the lead of a detail page that could not be fetched
partialLead(b) ==
    [cardOf(b) EXCEPT !.phone = Null, !.website = Null, !.address = Null,
                      !.category = Null, !.claimed = Bool(FALSE),
                      !.socialLinks = EmptyObj,
                      !.error = Str("Failed to fetch details")]

\* googleMaps.js lines 776-795
shouldInclude(l) ==
    /\ ~(config.filters.hasWebsite /\ ~Truthy(l.website))
    /\ ~(config.filters.claimedListing /\ ~Truthy(l.claimed))
    /\ ~(config.filters.hasSocialMedia
         /\ \A i \in 1..Len(l.socialLinks.keys) : ObjectValues(l.socialLinks)[i] = Null)

\* main.js line 138: the resolver's result has an email
hasEmail(result) ==
    Truthy(result.email) /\ result.email.t = "string" /\ trim(result.email.s) # ""

\* main.js lines 138-143: the email of the resolver's result
resolvedEmailOrUndefined(result) ==
    IF hasEmail(result) THEN Str(trim(result.email.s)) ELSE Undefined
resolvedEmail(result) ==
    IF hasEmail(result) THEN Str(trim(result.email.s)) ELSE Null

\* main.js lines 146-153: the resolver's links first, then the lead's own
mergedSocialLinks(result, l) ==
    Obj(SocialKeys,
        [k \in {SocialKeys[i] : i \in 1..4} |->
            JsOr(JsOr(Get(result.socialLinks, k), OptGet(l.socialLinks, k)), Null)])

\* main.js lines 187-195
withScore(enrichedLead, result) ==
    [enrichedLead EXCEPT !.leadScore = result.score,
                         !.leadGrade = Str(result.grade),
                         !.scoreBreakdown = result.breakdown]
scoredLead(enrichedLead) ==
    IF config.enableScoring
    THEN withScore(enrichedLead, calculateLeadScore(enrichedLead, config.idealCustomerProfile))
    ELSE enrichedLead

\* main.js lines 197-199
isHighQuality(enrichedLead) ==
    config.enableScoring /\ enrichedLead.leadGrade \in {Str("A+"), Str("A")}

NoStats == [totalLeads |-> 0, enrichedLeads |-> 0, emailsFound |-> 0, highQualityLeads |-> 0]

IdleProc == [pc |-> "idle", lead |-> Null, enrichedLead |-> Null, kind |-> "none"]
Finished == {"done", "rejected"}

\* main.js lines 126-130: the copy of the lead with its metadata
stamped(l) == [l EXCEPT !.scrapedAt = Str("now"), !.searchQuery = Str("query")]

\* main.js lines 140 and 197-203: the scored lead is counted and is about to
\* be pushed; emailFound tells whether the resolver gave an email
countAndPush(b, l, kind, enrichedLead, emailFound) ==
    /\ procs' = [procs EXCEPT ![b] =
          [pc |-> "pushing", lead |-> l, enrichedLead |-> enrichedLead, kind |-> kind]]
    /\ stats' = [stats EXCEPT
                    !.emailsFound = IF emailFound THEN @ + 1 ELSE @,
                    !.highQualityLeads = IF isHighQuality(enrichedLead) THEN @ + 1 ELSE @]

\* main.js lines 124-203 up to the first await, on the lead l of business b
\* handed over as kind (full, partial or fast)
processAndSaveLead(b, l, kind) ==
    IF config.extractEmails /\ Truthy(l.website)
    THEN /\ extractEmailFromWebsite(b, world[b].site)
         /\ procs' = [procs EXCEPT ![b] =
               [pc |-> "extracting", lead |-> l, enrichedLead |-> stamped(l), kind |-> kind]]
         /\ UNCHANGED stats
    ELSE /\ countAndPush(b, l, kind, scoredLead([stamped(l) EXCEPT !.email = Null]), FALSE)
         /\ UNCHANGED calls

\* the call once its result is consumed: nothing holds its locals any more
released(call) ==
    [IdleCall EXCEPT !.pc = "returned", !.outcome = call.outcome,
                     !.settledBy = call.settledBy]

\* the awaited call of line 134 has resolved
ResolutionSettled(b) ==
    /\ procs[b].pc = "extracting"
    /\ calls[b].outcome # Pending

\* main.js lines 138-153: the lead with the resolver's result
mergedLead(enrichedLead, l, result) ==
    [enrichedLead EXCEPT
        !.email = resolvedEmail(result),
        !.socialLinks = IF Truthy(result.socialLinks) THEN mergedSocialLinks(result, l) ELSE @]

\* main.js lines 135-203: the resolver has answered
resolutionReturns(b) ==
    /\ ResolutionSettled(b)
    /\ countAndPush(b, procs[b].lead, procs[b].kind,
                    scoredLead(mergedLead(procs[b].enrichedLead, procs[b].lead,
                                          calls[b].outcome)),
                    hasEmail(calls[b].outcome))
    /\ calls' = [calls EXCEPT ![b] = released(@)]
    /\ UNCHANGED <<world, config, scraper, requests, dataset>>

saved(st) == [st EXCEPT !.enrichedLeads = @ + 1, !.totalLeads = @ + 1]

\* main.js lines 203-205, and the catch of line 209 when the push fails
pushData(b) ==
    /\ procs[b].pc = "pushing"
    /\ \E ok \in BOOLEAN :
        IF ok
        THEN /\ dataset' = Append(dataset, procs[b].enrichedLead)
             /\ stats' = saved(stats)
             /\ procs' = [procs EXCEPT ![b].pc = "done"]
        ELSE /\ procs' = [procs EXCEPT ![b].pc = "pushingRaw"]
             /\ UNCHANGED <<dataset, stats>>
    /\ UNCHANGED <<calls, world, config, scraper, requests>>

\* main.js lines 213-219: the raw lead with the error flag
rawRecord(l) ==
    [l EXCEPT !.enrichmentError = Str("error"), !.scrapedAt = Str("now")]

\* main.js lines 213-219: the push of the catch; when it fails too the
\* invocation rejects
pushRawLead(b) ==
    /\ procs[b].pc = "pushingRaw"
    /\ \E ok \in BOOLEAN :
        IF ok
        THEN /\ dataset' = Append(dataset, rawRecord(procs[b].lead))
             /\ stats' = saved(stats)
             /\ procs' = [procs EXCEPT ![b].pc = "done"]
        ELSE /\ procs' = [procs EXCEPT ![b].pc = "rejected"]
             /\ UNCHANGED <<dataset, stats>>
    /\ UNCHANGED <<calls, world, config, scraper, requests>>

\* googleMaps.js lines 122-431: the search crawler has collected the cards
searchCrawlerRun ==
    /\ scraper.phase = "search"
    /\ scraper' = [scraper EXCEPT
                      !.phase = IF config.fastMode THEN "fast" ELSE "detail",
                      !.leads = [b \in 1..Len(world) |-> cardOf(b)]]
    /\ requests' = [b \in Slots |->
                       IF ~config.fastMode /\ b <= Len(world)
                       THEN [status |-> "queued", retryCount |-> 0]
                       ELSE requests[b]]
    /\ UNCHANGED <<calls, world, config, procs, dataset, stats>>

\* the loop of fast mode is between two cards, or past the last
FastLoopReady ==
    /\ scraper.phase = "fast"
    /\ scraper.next > 1 => procs[scraper.next - 1].pc \in Finished

\* googleMaps.js lines 438-447: the loop of fast mode hands over the next
\* card once the callback for the one before has settled
fastModeNext ==
    /\ FastLoopReady
    /\ scraper.next <= Len(scraper.leads)
    /\ processAndSaveLead(scraper.next, scraper.leads[scraper.next], "fast")
    /\ scraper' = [scraper EXCEPT !.next = @ + 1]
    /\ UNCHANGED <<world, config, requests, dataset>>

\* googleMaps.js lines 449-450
fastModeReturns ==
    /\ FastLoopReady
    /\ scraper.next > Len(scraper.leads)
    /\ scraper' = [scraper EXCEPT !.phase = "done"]
    /\ UNCHANGED <<calls, world, config, requests, procs, dataset, stats>>

\* a request out of the queue for good: its retry count is not read again
Taken(status) == [status |-> status, retryCount |-> 0]

\* the detail crawler takes a queued request while it has a free browser
DetailSlotFree(b) ==
    /\ scraper.phase = "detail"
    /\ requests[b].status = "queued"
    /\ Cardinality({o \in Slots : requests[o].status = "handling"}) < detailConcurrency

\* a detail page does not load: the request is retried, and after the last
\* retry failedRequestHandler (lines 823-852) hands over the partial lead
detailNavigationFails(b) ==
    /\ DetailSlotFree(b)
    /\ IF requests[b].retryCount < detailRetries
       THEN /\ requests' = [requests EXCEPT ![b].retryCount = @ + 1]
            /\ UNCHANGED <<calls, procs, stats>>
       ELSE /\ requests' = [requests EXCEPT ![b] = Taken("handling")]
            /\ processAndSaveLead(b, partialLead(b), "partial")
    /\ UNCHANGED <<world, config, scraper, dataset>>

\* googleMaps.js lines 512-821: a detail page loads.  The place may show as
\* permanently closed, the extraction may throw into the catch of line 816,
\* the filters may drop the lead; otherwise the lead is handed over
detailRequestHandler(b) ==
    /\ DetailSlotFree(b)
    /\ \E isClosed \in BOOLEAN, thrown \in BOOLEAN :
        IF thrown \/ (config.skipClosedPlaces /\ isClosed) \/ ~shouldInclude(fullLead(b))
        THEN /\ requests' = [requests EXCEPT ![b] = Taken("done")]
             /\ UNCHANGED <<calls, procs, stats>>
        ELSE /\ requests' = [requests EXCEPT ![b] = Taken("handling")]
             /\ processAndSaveLead(b, fullLead(b), "full")
    /\ UNCHANGED <<world, config, scraper, dataset>>

\* the callback a handler awaits has settled
CallbackSettled(b) ==
    /\ requests[b].status = "handling"
    /\ procs[b].pc \in Finished

\* googleMaps.js lines 802-813 and 845-851: the awaited callback has settled,
\* a rejection is logged
onLeadScrapedSettles(b) ==
    /\ CallbackSettled(b)
    /\ requests' = [requests EXCEPT ![b].status = "done"]
    /\ UNCHANGED <<calls, world, config, scraper, procs, dataset, stats>>

\* no detail request is queued or being handled
DetailQueueDrained ==
    /\ scraper.phase = "detail"
    /\ \A b \in Slots : requests[b].status \in {"none", "done"}

\* googleMaps.js lines 869-873: detailCrawler.run resolves
detailCrawlerRunResolves ==
    /\ DetailQueueDrained
    /\ scraper' = [scraper EXCEPT !.phase = "done"]
    /\ UNCHANGED <<calls, world, config, requests, procs, dataset, stats>>

InitRun(businessLists) ==
    /\ ScorerUnused
    /\ calls = [c \in Slots |-> IdleCall]
    /\ world \in businessLists
    /\ config \in Configs
    /\ scraper = [phase |-> "search", leads |-> <<>>, next |-> 1]
    /\ requests = [b \in Slots |-> [status |-> "none", retryCount |-> 0]]
    /\ procs = [b \in Slots |-> IdleProc]
    /\ dataset = <<>>
    /\ stats = NoStats

ScraperStep ==
    \/ searchCrawlerRun
    \/ fastModeNext
    \/ fastModeReturns
    \/ \E b \in Slots : detailNavigationFails(b)
    \/ \E b \in Slots : detailRequestHandler(b)
    \/ \E b \in Slots : onLeadScrapedSettles(b)
    \/ detailCrawlerRunResolves

ProcessStep ==
    \/ \E b \in Slots : resolutionReturns(b)
    \/ \E b \in Slots : pushData(b)
    \/ \E b \in Slots : pushRawLead(b)

\* the resolver's calls, each followed until its race settles: what a crawl
\* does after its timer has won touches only the locals of that call
ResolverRunsUntilSettled ==
    /\ \E c \in Slots : calls[c].outcome = Pending /\ ResolverStep(c)
    /\ UNCHANGED scorerVars
    /\ UNCHANGED pipelineVars

NextRun ==
    \/ (ScraperStep /\ UNCHANGED scorerVars)
    \/ (ProcessStep /\ UNCHANGED scorerVars)
    \/ ResolverRunsUntilSettled

\* one business, on a site of every pair of page texts or without a website
EnrichSites ==
    {SiteOf(Page(<<"https://www.facebook.com/acme", "/contact">>, ht), Page(<<>>, ct)) :
        ht \in HomeTexts, ct \in ContactTexts}

EnrichWorlds ==
    {<<BusinessWithSite(site)>> : site \in EnrichSites} \cup {<<BusinessWithoutSite>>}

InitEnrich == InitRun(EnrichWorlds)
SpecEnrich == InitEnrich /\ [][NextRun]_vars

\* up to MaxLeads businesses
PipelineWorlds ==
    UNION {[1..n -> PipelineBusinesses] : n \in 1..MaxLeads}

InitPipeline == InitRun(PipelineWorlds)
SpecPipeline == InitPipeline /\ [][NextRun]_vars

(***************************************************************************)
(* Claims about the resolver                                               *)
(***************************************************************************)
Settled(call) == call.outcome # Pending
PageText(call, url) == call.site.pages[url].text
PageAnchors(call, url) == call.site.pages[url].anchors
MaxOf(S) == CHOOSE i \in S : \A j \in S : i >= j

\* C4 (as amended): a call never rejects: whenever it has returned or its
\* timer has fired it has resolved with a result.  The result is the
\* all-null literal when there was no URL, when the request queue could not
\* be opened and when the timer won the race; when crawler.run failed it is
\* email null with the social links found so far.
C4_ResolvesOnEveryFailure ==
    \A c \in Slots :
        LET call == calls[c]
        IN /\ (call.pc = "returned" \/ call.timer = "fired") => Settled(call)
           /\ call.timer = "fired" <=> call.settledBy = "timer"
           /\ Settled(call) => call.outcome.t = "result"
           /\ call.settledBy \in {"noUrl", "catch", "timer"} => call.outcome = AllNullResult
           /\ (call.settledBy = "inner" /\ "crawler" \in call.failures)
                => call.outcome = Result(Null, call.foundSocialLinks)

\* C4 witness: crawler.run failed after an email and a social link had been
\* found, and the call resolved without the email but with the link
C4_Witness ==
    \E c \in Slots :
        /\ calls[c].settledBy = "inner"
        /\ "crawler" \in calls[c].failures
        /\ Truthy(calls[c].foundEmail)
        /\ calls[c].outcome.socialLinks # EmptySocialLinks

\* C4 (as stated): after any failure of a page fetch, of the crawler or of
\* the request queue, and after the timeout, the result is the all-null one
C4_AllNullOnAnyFailure ==
    \A c \in Slots :
        (Settled(calls[c])
         /\ calls[c].failures \cap {"fetch", "parse", "crawler", "queue", "timeout"} # {})
            => calls[c].outcome = AllNullResult

\* the resolution was cut short: the timer won, or the crawl ended on a
\* failure without an email
CutShort(call) ==
    \/ call.settledBy = "timer"
    \/ /\ call.settledBy = "inner"
       /\ call.failures \cap {"fetch", "parse", "crawler"} # {}
       /\ ~Truthy(call.foundEmail)

\* every social link of the pages scanned so far is in links
HoldsLinksOfScans(call, links) ==
    \A i \in 1..Len(call.scans), k \in DOMAIN links.vals :
        Truthy(Get(socialLinksAfter(EmptySocialLinks, PageAnchors(call, call.scans[i].url)), k))
            => Truthy(Get(links, k))

\* C5 (as amended): a resolution cut short by a fetch, parse or crawler
\* failure returns email null with every social link of the pages scanned;
\* one cut short by the 45 s timer returns the all-null result, the links
\* found so far being dropped.
C5_PartialResultsExceptOnTimeout ==
    \A c \in Slots :
        LET call == calls[c]
        IN /\ (CutShort(call) /\ call.settledBy = "inner")
                => /\ call.outcome.email = Null
                   /\ HoldsLinksOfScans(call, call.outcome.socialLinks)
           /\ call.settledBy = "timer" => call.outcome.socialLinks = EmptySocialLinks

\* C5 witness: the timer fired after a social link had been found
C5_Witness ==
    \E c \in Slots :
        /\ calls[c].settledBy = "timer"
        /\ calls[c].linksAtSettle # EmptySocialLinks

\* C5 (as stated): a resolution cut short by a failure or by the timeout
\* returns email null together with the social links found until then
C5_PartialResultsWhenCutShort ==
    \A c \in Slots :
        CutShort(calls[c])
            => calls[c].outcome = Result(Null, calls[c].linksAtSettle)

\* the prefix list in the order the specification gives it
listedPrefixes == <<"info@", "contact@", "sales@", "hello@", "support@", "admin@", "office@">>
StartsWithListed(email, k) == startsWith(toLowerCase(email), listedPrefixes[k])
HasListedPrefix(email) == \E k \in 1..Len(listedPrefixes) : StartsWithListed(email, k)

\* C6 (as amended): the selected email is the first surviving candidate, in
\* document order, that starts with any of the seven prefixes, whatever the
\* position of its prefix in the list; without such a candidate it is the
\* first surviving candidate.
C6_FirstPrefixedInDocumentOrder ==
    \A c \in Slots :
        Truthy(calls[c].foundEmail) =>
            LET cands == candidatesOf(PageText(calls[c], calls[c].foundOn))
                prefixed == {i \in 1..Len(cands) : HasListedPrefix(cands[i])}
            IN calls[c].foundEmail.s =
                 IF prefixed = {} THEN cands[1] ELSE cands[MinOf(prefixed)]

\* C6 witness: an email was selected that is not the first candidate of its page
C6_Witness ==
    \E c \in Slots :
        /\ Truthy(calls[c].foundEmail)
        /\ calls[c].foundEmail.s # candidatesOf(PageText(calls[c], calls[c].foundOn))[1]

\* C6 (as stated): the earliest-listed prefix that has a matching candidate wins
C6_EarliestListedPrefixWins ==
    \A c \in Slots :
        Truthy(calls[c].foundEmail) =>
            LET cands == candidatesOf(PageText(calls[c], calls[c].foundOn))
                ranks == {k \in 1..Len(listedPrefixes) :
                            \E i \in 1..Len(cands) : StartsWithListed(cands[i], k)}
            IN ranks # {} => StartsWithListed(calls[c].foundEmail.s, MinOf(ranks))

\* C8: at most two pages are scanned and at most one is enqueued, from the
\* first page visited when it gave no email; no page is scanned once an
\* email is found, and a found email is never replaced.
C8_TwoPagesEmailFinal ==
    /\ [](\A c \in Slots :
            LET call == calls[c]
            IN /\ Cardinality({call.scans[i].url : i \in 1..Len(call.scans)}) <= 2
               /\ Cardinality(call.visitedUrls) <= 2
               /\ Len(call.enqueues) <= 1
               /\ \A i \in 1..Len(call.enqueues) :
                    /\ call.enqueues[i].from = call.scans[1].url
                    /\ call.enqueues[i].found = Null
                    /\ ~Truthy(emailOfPage(PageText(call, call.scans[1].url)))
               /\ \A i \in 1..Len(call.scans) : call.scans[i].found = Null
               /\ Truthy(call.foundEmail) => call.foundOn = call.scans[Len(call.scans)].url)
    /\ [][\A c \in Slots :
            Truthy(calls[c].foundEmail) =>
                /\ calls'[c].foundEmail = calls[c].foundEmail
                /\ calls'[c].scans = calls[c].scans
                /\ calls'[c].enqueues = calls[c].enqueues]_vars

\* C8 witness: the homepage gave no email, the one page it enqueued was
\* scanned and gave the email
C8_Witness ==
    \E c \in Slots :
        /\ Len(calls[c].enqueues) = 1
        /\ Cardinality(calls[c].visitedUrls) = 2
        /\ calls[c].foundOn = calls[c].enqueues[1].url
        /\ calls[c].outcome = Result(calls[c].foundEmail, calls[c].foundSocialLinks)
        /\ Truthy(calls[c].foundEmail)

(***************************************************************************)
(* Claims about the emails and the records of a run                        *)
(***************************************************************************)
\* the shape C7 asks of an email, read off the string alone
ValidShape(email) ==
    LET ats == {i \in 1..Len(email) : Char(email, i) = "@"}
        at == MinOf(ats)
        localPart == SubSeq(email, 1, at - 1)
        domain == SubSeq(email, at + 1, Len(email))
        dots == {i \in 1..Len(domain) : Char(domain, i) = "."}
        tld == SubSeq(domain, MaxOf(dots) + 1, Len(domain))
    IN /\ Cardinality(ats) = 1
       /\ Len(localPart) >= 1 /\ Len(localPart) <= 64
       /\ IsLetter(Char(localPart, 1))
       /\ Len(domain) <= 255
       /\ dots # {}
       /\ Len(tld) >= 2
       /\ \A i \in 1..Len(tld) : IsLetter(Char(tld, i))
       /\ \A listed \in blacklistedDomains : ~includes(toLowerCase(domain), listed)

\* ValidShape over the candidates of the catalogue's texts, computed once
shapeTable ==
    [e \in UNION {{cleanedEmailsTable[t][i] : i \in 1..Len(cleanedEmailsTable[t])} :
                    t \in AllTexts} |-> ValidShape(e)]
ShapeOK(email) == IF email \in DOMAIN shapeTable THEN shapeTable[email] ELSE ValidShape(email)

\* the text has addresses and each is on a blacklisted domain
OnlyBlacklisted(text) ==
    LET raw == matchAll(text, 1)
    IN /\ raw # <<>>
       /\ \A i \in 1..Len(raw) :
            \E listed \in blacklistedDomains :
                includes(toLowerCase(split(raw[i], "@")[2]), listed)
onlyBlacklistedTable == [t \in AllTexts |-> OnlyBlacklisted(t)]

\* C7: every email a call of extractEmailFromWebsite resolves with and every
\* non-null email of a pushed record has one '@', a local part of 1..64
\* characters starting with a letter, a domain of at most 255 characters
\* ending in a TLD of two or more letters, and no blacklisted substring in
\* the domain; a page whose addresses are all blacklisted gives no email.
C7_EmailsWellFormed ==
    /\ \A c \in Slots :
        /\ (Settled(calls[c]) /\ Truthy(calls[c].outcome.email))
              => ShapeOK(calls[c].outcome.email.s)
        /\ Truthy(calls[c].foundEmail) => ShapeOK(calls[c].foundEmail.s)
        /\ \A i \in 1..Len(calls[c].scans) :
              onlyBlacklistedTable[PageText(calls[c], calls[c].scans[i].url)]
                  => calls[c].foundOn # calls[c].scans[i].url
    /\ \A i \in 1..Len(dataset) :
        Truthy(dataset[i].email) => ShapeOK(dataset[i].email.s)

\* C7 witness: a record was pushed with an email although the homepage of
\* its website shows only a blacklisted address
C7_Witness ==
    \E i \in 1..Len(dataset) :
        /\ Truthy(dataset[i].email)
        /\ onlyBlacklistedTable[world[dataset[i].b].site.pages[AcmeUrl].text]

RecordsOf(b) == {i \in 1..Len(dataset) : dataset[i].b = b}

\* C9 (as stated): every pushed record has a socialLinks mapping with the
\* four keys linkedin, facebook, twitter and instagram, each a URL or null
C9_SocialLinksFullyKeyed ==
    \A i \in 1..Len(dataset) :
        LET links == dataset[i].socialLinks
        IN /\ links.t = "object"
           /\ {links.keys[k] : k \in 1..Len(links.keys)} =
                {"linkedin", "facebook", "twitter", "instagram"}
           /\ \A k \in 1..Len(links.keys) :
                ObjectValues(links)[k] = Null \/ ObjectValues(links)[k].t = "string"

\* some step of the run can be taken: the guards of the actions of NextRun
CanStep ==
    \/ scraper.phase = "search"
    \/ FastLoopReady
         /\ (scraper.next <= Len(scraper.leads) => calls[scraper.next].pc = "idle")
    \/ \E b \in Slots : DetailSlotFree(b) /\ calls[b].pc = "idle"
    \/ \E b \in Slots : CallbackSettled(b)
    \/ DetailQueueDrained
    \/ \E b \in Slots : ResolutionSettled(b)
    \/ \E b \in Slots : procs[b].pc \in {"pushing", "pushingRaw"}
    \/ \E c \in Slots : /\ calls[c].outcome = Pending
                         /\ calls[c].pc \in {"opening", "crawling", "dropping"}

\* the email-less ways a resolution can end, or no resolution at all
NoEmailResolved(b) ==
    calls[b].outcome = Pending \/ calls[b].outcome.email = Null

FirmCategories ==
    {Null, Str("Software Company"), Str("Clothing store"), Str("Healthcare Technology"),
     Str("Medical software"), Str("Dental Clinic"), Str("Plumber")}

FirmAddresses ==
    {Null, Str("123 Main St, Austin, TX"), Str("1 Rue de Rivoli, Paris, France"),
     Str("10 Downing St, London, UK"), Str("Shibuya, Tokyo, Japan"),
     Str("Nairobi, Kenya"), Str("Toronto, CANADA"), Str("Via Roma 1, Milano, Italy, USA")}

EmployeeCountValues == {Undefined, Num(25), Num(600)}

\* a mapping whose keys are not in the canonical order, one of them not canonical
ReorderedICP ==
    [industries |-> Obj(<<"healthcare", "Technology", "plumb">>,
                        [k \in {"healthcare", "Technology", "plumb"} |->
                            CASE k = "healthcare" -> Num(20)
                              [] k = "Technology" -> Num(30)
                              [] OTHER -> Num(12)]),
     locations |-> Obj(<<"Europe", "Other">>,
                       [k \in {"Europe", "Other"} |-> IF k = "Europe" THEN Num(25) ELSE Num(0)]),
     employeeRanges |-> Obj(<<"11-50", "500+">>,
                            [k \in {"11-50", "500+"} |-> IF k = "500+" THEN Num(15) ELSE Num(10)])]

\* industries in the legacy form, locations in the mapping form
LegacyIndustriesICP ==
    [industries |-> Arr(<<"Retail", "software", "COMPANY">>),
     locations |-> DefaultICP.locations,
     employeeRanges |-> Undefined]

\* industries in the mapping form, locations in the legacy form
LegacyLocationsICP ==
    [industries |-> DefaultICP.industries,
     locations |-> Arr(<<"Berlin", "austin", "TX">>),
     employeeRanges |-> Undefined]

FirmICPs ==
    {DefaultICP, LegacyICP, EmptyICP, PartialICP, ReorderedICP, LegacyIndustriesICP,
     LegacyLocationsICP}

FirmLeads ==
    [email : {Null},
     emailValid : {Undefined},
     phone : {Str("(512) 555-0100")},
     phoneValid : {Undefined},
     website : {Null},
     claimed : {Bool(TRUE)},
     rating : {Dec(45, 10)},
     reviewCount : {Num(50)},
     socialLinks : {SocialLinksOf(2)},
     category : FirmCategories,
     address : FirmAddresses,
     employeeCount : EmployeeCountValues]

InitFirm ==
    /\ lead \in FirmLeads
    /\ icp \in FirmICPs
    /\ scoreResult = NotScored
    /\ calls = <<>>
    /\ PipelineUnused

SpecFirm == InitFirm /\ [][NextScore]_vars

\* the lead has a category only: what firmographic holds is the industry contribution
OnlyCategory == lead.address = Null /\ lead.employeeCount = Undefined

\* the mapping keys that are a case-insensitive substring of the category
DirectKeys(category, industries) ==
    {i \in 1..Len(industries.keys) :
        includes(toLowerCase(category), toLowerCase(industries.keys[i]))}

\* the canonical keys, by position, that have a keyword contained in the category
KeywordKeys(category) ==
    {i \in 1..Len(industryMap) :
        \E k \in 1..Len(industryMap[i].keywords) :
            includes(toLowerCase(category), industryMap[i].keywords[k])}

\* the key C11 resolves a category to, "" when none resolves
ResolvedKey(category, industries) ==
    IF DirectKeys(category, industries) # {}
    THEN industries.keys[MinOf(DirectKeys(category, industries))]
    ELSE IF KeywordKeys(category) # {}
    THEN industryMap[MinOf(KeywordKeys(category))].industry
    ELSE ""

\* C11: with icp.industries a mapping, the industry contribution is the point
\* value of the resolved key (first mapping key contained in the category, else
\* first canonical key with a keyword in the category), and 0 when no key
\* resolves or the resolved key has no point value in the mapping.
C11_IndustryContribution ==
    (Scored /\ OnlyCategory /\ icp.industries.t = "object") =>
        scoreResult.breakdown.firmographic =
            IF lead.category = Null THEN Num(0)
            ELSE IF ResolvedKey(lead.category.s, icp.industries) \in DOMAIN icp.industries.vals
            THEN icp.industries.vals[ResolvedKey(lead.category.s, icp.industries)]
            ELSE Num(0)

\* the sum of the three firmographic contributions before the cap
PreClampSum ==
    JsAdd(JsAdd(industryPoints(lead, icp), locationPoints(lead, icp)), employeePoints(lead, icp))

\* C12: breakdown.firmographic is min(industry + location + employee-range
\* points, 40): never above 40, exactly 40 when the sum is 40 or more, the sum
\* itself below that (and NaN when the sum is NaN).
C12_FirmographicClamped ==
    Scored =>
        LET firm == scoreResult.breakdown.firmographic
        IN IF ~IsNum(PreClampSum) THEN firm = NaN
           ELSE /\ IsNum(firm)
                /\ firm.n <= 40 * U
                /\ PreClampSum.n >= 40 * U => firm = Num(40)
                /\ PreClampSum.n < 40 * U => firm = PreClampSum

\* C12 witness: industry 30 and location 30 give a firmographic score of 40
C12_Witness ==
    /\ Scored
    /\ industryPoints(lead, icp) = Num(30)
    /\ locationPoints(lead, icp) = Num(30)
    /\ scoreResult.breakdown.firmographic = Num(40)

(***************************************************************************)
(* The scorer on the data-quality fields, each missing, null or present.   *)
(***************************************************************************)
QualityLeads ==
    [email : {Undefined, Null, Str("info@acme.com")},
     emailValid : {Undefined, Bool(FALSE), Bool(TRUE)},
     phone : {Undefined, Null, Str("(512) 555-0100")},
     phoneValid : {Undefined, Bool(TRUE)},
     website : {Undefined, Null, Str("https://acme.com")},
     claimed : {Undefined, Bool(FALSE), Bool(TRUE)},
     rating : {Dec(45, 10)},
     reviewCount : {Num(50)},
     socialLinks : {Undefined},
     category : {Str("Software Company")},
     address : {Str("123 Main St, Austin, TX")},
     employeeCount : {Undefined}]

InitQuality ==
    /\ lead \in QualityLeads
    /\ icp = DefaultICP
    /\ scoreResult = NotScored
    /\ calls = <<>>
    /\ PipelineUnused

SpecQuality == InitQuality /\ [][NextScore]_vars

Present(v) == v \notin {Undefined, Null}
Points(cond, n) == IF cond THEN n ELSE 0

\* C13: breakdown.dataQuality is 10 for an email plus 5 if emailValid is also
\* true, 7 for a phone plus 3 if phoneValid is also true, 5 for a website and
\* 5 for claimed; it is 0 exactly when the lead has none of email, phone,
\* website and is not claimed, 35 exactly when all six hold, never above 35.
C13_DataQualityPoints ==
    Scored =>
        LET dq == scoreResult.breakdown.dataQuality
            emailThere == Present(lead.email)
            phoneThere == Present(lead.phone)
            siteThere == Present(lead.website)
            isClaimed == lead.claimed = Bool(TRUE)
            emailOk == emailThere /\ lead.emailValid = Bool(TRUE)
            phoneOk == phoneThere /\ lead.phoneValid = Bool(TRUE)
        IN /\ IsNum(dq)
           /\ dq.n = U * (Points(emailThere, 10) + Points(emailOk, 5) + Points(phoneThere, 7)
                          + Points(phoneOk, 3) + Points(siteThere, 5) + Points(isClaimed, 5))
           /\ dq = Num(0) <=> (~emailThere /\ ~phoneThere /\ ~siteThere /\ ~isClaimed)
           /\ dq = Num(35) <=> (emailOk /\ phoneOk /\ siteThere /\ isClaimed)
           /\ dq.n <= 35 * U

\* C13 witness: emailValid and phoneValid are true on a lead that has neither
\* email nor phone, and only its website and claimed flag count
C13_Witness ==
    /\ Scored
    /\ lead.email = Null /\ lead.emailValid = Bool(TRUE)
    /\ lead.phone = Undefined /\ lead.phoneValid = Bool(TRUE)
    /\ scoreResult.breakdown.dataQuality = Num(10)

(***************************************************************************)
(* The scorer on the engagement fields: ratings and review counts on and   *)
(* next to every band edge, and zero to four social links.                 *)
(***************************************************************************)
EngageRatings ==
    {Undefined, Null, Num(0), Dec(349, 100), Dec(35, 10), Dec(399, 100), Dec(40, 10),
     Dec(449, 100), Dec(45, 10), Dec(479, 100), Dec(48, 10), Num(5)}

EngageReviewCounts ==
    {Undefined, Null, Num(0), Num(9), Num(10), Num(19), Num(20), Num(49), Num(50), Num(99),
     Num(100), Num(2500)}

EngageSocialLinks == SocialLinksValues \cup {Null, EmptyObj}

EngageLeads ==
    [email : {Null},
     emailValid : {Undefined},
     phone : {Str("(512) 555-0100")},
     phoneValid : {Undefined},
     website : {Null},
     claimed : {Bool(FALSE)},
     rating : EngageRatings,
     reviewCount : EngageReviewCounts,
     socialLinks : EngageSocialLinks,
     category : {Null},
     address : {Null},
     employeeCount : {Undefined}]

InitEngage ==
    /\ lead \in EngageLeads
    /\ icp = DefaultICP
    /\ scoreResult = NotScored
    /\ calls = <<>>
    /\ PipelineUnused

SpecEngage == InitEngage /\ [][NextScore]_vars

\* the points, times 100, of the highest band whose lower edge (times 100) v reaches
BandOf(v, edges) ==
    LET reached == {i \in 1..Len(edges) : v >= edges[i][1]}
    IN IF reached = {} THEN 0 ELSE edges[MinOf(reached)][2]

RatingBands == <<<<480, 10>>, <<450, 8>>, <<400, 5>>, <<350, 2>>>>
ReviewBands == <<<<10000, 10>>, <<5000, 8>>, <<2000, 5>>, <<1000, 3>>>>

\* a rating or review count times 100, 0 when the lead has none
Hundredths(v) == IF IsNum(v) THEN (v.n * 100) \div U ELSE 0

\* the number of social links of the lead that are not null
NonNullLinks(l) ==
    IF l.socialLinks.t = "object"
    THEN Cardinality({k \in DOMAIN l.socialLinks.vals : l.socialLinks.vals[k] # Null})
    ELSE 0

\* C14: breakdown.engagement is the one highest rating band reached (4.8: 10,
\* 4.5: 8, 4.0: 5, 3.5: 2, edges included) plus the one highest review-count
\* band reached (100: 10, 50: 8, 20: 5, 10: 3) plus min(1.25 x the number of
\* non-null social links, 5); it never exceeds 25.
C14_EngagementBands ==
    Scored =>
        LET eng == scoreResult.breakdown.engagement
            social == IF 125 * NonNullLinks(lead) <= 500 THEN 125 * NonNullLinks(lead) ELSE 500
        IN /\ IsNum(eng)
           /\ eng.n * 100 = U * (100 * BandOf(Hundredths(lead.rating), RatingBands)
                                 + 100 * BandOf(Hundredths(lead.reviewCount), ReviewBands)
                                 + social)
           /\ eng.n <= 25 * U

\* C14 witness: a rating and a review count on the lower edge of their top
\* bands with three social links give 10 + 10 + 3.75
C14_Witness ==
    /\ Scored
    /\ lead.rating = Dec(48, 10)
    /\ lead.reviewCount = Num(100)
    /\ NonNullLinks(lead) = 3
    /\ scoreResult.breakdown.engagement = Dec(2375, 100)

\* the lead has an address only: what firmographic holds is the location contribution
OnlyAddress == lead.category = Null /\ lead.employeeCount = Undefined

EuropeTokens == {"uk", "united kingdom", "europe", "germany", "france", "spain", "italy"}
ApacTokens == {"asia", "china", "japan", "india", "singapore", "australia"}

\* the rules of C15 on an address, case-insensitively
NorthAmericaRule(address) ==
    \/ \E w \in {"usa", "united states", "canada"} : includes(toLowerCase(address), w)
    \/ \E st \in usStates : matchesWord(toLowerCase(address), st)
EuropeRule(address) == \E w \in EuropeTokens : includes(toLowerCase(address), w)
ApacRule(address) == \E w \in ApacTokens : includes(toLowerCase(address), w)

\* the region of the first rule that matches, in the order of C15
RegionOf(address) ==
    IF NorthAmericaRule(address) THEN "North America"
    ELSE IF EuropeRule(address) THEN "Europe"
    ELSE IF ApacRule(address) THEN "APAC"
    ELSE "Other"

\* C15: with icp.locations a mapping, the location contribution is
\* icp.locations[R], 0 when R has no entry, R being the region of the first
\* matching rule in the order North America, Europe, APAC, Other.
C15_LocationContribution ==
    (Scored /\ OnlyAddress /\ icp.locations.t = "object") =>
        scoreResult.breakdown.firmographic =
            IF lead.address = Null THEN Num(0)
            ELSE IF RegionOf(lead.address.s) \in DOMAIN icp.locations.vals
            THEN icp.locations.vals[RegionOf(lead.address.s)]
            ELSE Num(0)

\* C15 witness: an address in France whose "de" reads as the state
\* abbreviation DE scores the North America points, not the Europe points
C15_Witness ==
    /\ Scored
    /\ OnlyAddress
    /\ icp = DefaultICP
    /\ lead.address = Str("1 Rue de Rivoli, Paris, France")
    /\ EuropeRule(lead.address.s)
    /\ scoreResult.breakdown.firmographic = Num(30)

\* the points of C16 for a legacy sequence of terms: 30 when a term is a
\* case-insensitive substring of the text, 0 otherwise
LegacyPoints(text, terms) ==
    IF \E i \in 1..Len(terms) : includes(toLowerCase(text), toLowerCase(terms[i]))
    THEN 30 ELSE 0

\* the points of a mapping for key, 0 when it has none
MappedPoints(mapping, key) ==
    IF key \in DOMAIN mapping.vals THEN mapping.vals[key].n \div U ELSE 0

\* the industry and location points as C11, C15 and C16 state them
StatedIndustryPoints(l, p) ==
    IF l.category = Null \/ p.industries = Undefined THEN 0
    ELSE IF p.industries.t = "array" THEN LegacyPoints(l.category.s, p.industries.items)
    ELSE MappedPoints(p.industries, ResolvedKey(l.category.s, p.industries))

StatedLocationPoints(l, p) ==
    IF l.address = Null \/ p.locations = Undefined THEN 0
    ELSE IF p.locations.t = "array" THEN LegacyPoints(l.address.s, p.locations.items)
    ELSE MappedPoints(p.locations, RegionOf(l.address.s))

\* C16: a field of the ICP in the legacy sequence form gives exactly 30 when
\* at least one of its terms is a case-insensitive substring of the category
\* (the address), whatever the number and position of the matching terms, and
\* 0 otherwise; the form is decided for each field on its own.
C16_LegacyFlatThirty ==
    (Scored /\ lead.employeeCount = Undefined
     /\ (icp.industries.t = "array" \/ icp.locations.t = "array")) =>
        LET sum == StatedIndustryPoints(lead, icp) + StatedLocationPoints(lead, icp)
        IN /\ icp.industries.t = "array" => StatedIndustryPoints(lead, icp) \in {0, 30}
           /\ icp.locations.t = "array" => StatedLocationPoints(lead, icp) \in {0, 30}
           /\ scoreResult.breakdown.firmographic = Num(IF sum <= 40 THEN sum ELSE 40)

\* C16 witness: the second and the third term of a legacy sequence both match
\* the category, the first does not, and the industry contribution is 30
C16_Witness ==
    /\ Scored
    /\ OnlyCategory
    /\ icp = LegacyIndustriesICP
    /\ lead.category = Str("Software Company")
    /\ scoreResult.breakdown.firmographic = Num(30)

(***************************************************************************)
(* The scorer called on leads with fields missing or null and on ICPs of   *)
(* every shape: omitted, null, empty, partial and with fields that are     *)
(* neither a sequence nor a mapping.                                       *)
(***************************************************************************)
\* line 7: the default parameter, icp = {}, applies to an omitted ICP only
icpOrDefault(p) == IF p = Undefined THEN EmptyICP ELSE p

\* lines 93, 113 and 133: icp.industries, icp.locations and icp.employeeRanges
\* are read once the lead's field is truthy, a TypeError on a null icp
throwsTypeError(l, p) ==
    /\ icpOrDefault(p) = Null
    /\ (Truthy(l.category) \/ Truthy(l.address) \/ Truthy(l.employeeCount))

Thrown == [score |-> Undefined, grade |-> "TypeError", breakdown |-> Undefined]

\* a call of calculateLeadScore: what it returns, or Thrown
calculateLeadScoreCall(l, p) ==
    IF throwsTypeError(l, p) THEN Thrown
    ELSE calculateLeadScore(l, IF icpOrDefault(p) = Null THEN EmptyICP ELSE icpOrDefault(p))

OnlyIndustriesICP ==
    [industries |-> DefaultICP.industries, locations |-> Undefined, employeeRanges |-> Undefined]
OnlyLocationsICP ==
    [industries |-> Undefined, locations |-> DefaultICP.locations, employeeRanges |-> Undefined]
\* fields that are neither a sequence nor a mapping
UnexpectedICP ==
    [industries |-> Num(30), locations |-> Bool(TRUE), employeeRanges |-> Num(5)]

RobustICPs ==
    {Undefined, Null, EmptyICP, DefaultICP, LegacyICP, OnlyIndustriesICP, OnlyLocationsICP,
     UnexpectedICP}

RobustLeads ==
    [email : {Undefined, Str("info@acme.com")},
     emailValid : {Undefined},
     phone : {Null, Str("(512) 555-0100")},
     phoneValid : {Undefined},
     website : {Undefined, Str("https://acme.com")},
     claimed : {Undefined, Bool(TRUE)},
     rating : {Null, Dec(45, 10)},
     reviewCount : {Undefined, Num(50)},
     socialLinks : {Undefined, Null, SocialLinksOf(2)},
     category : {Undefined, Null, Str("Software Company")},
     address : {Undefined, Null, Str("123 Main St, Austin, TX")},
     employeeCount : {Undefined, Null, Num(25)}]

InitRobust ==
    /\ lead \in RobustLeads
    /\ icp \in RobustICPs
    /\ scoreResult = NotScored
    /\ calls = <<>>
    /\ PipelineUnused

ScoreCall ==
    /\ scoreResult = NotScored
    /\ scoreResult' = calculateLeadScoreCall(lead, icp)
    /\ UNCHANGED <<lead, icp, calls>>
    /\ UNCHANGED pipelineVars

SpecRobust == InitRobust /\ [][ScoreCall]_vars

\* C17: calculateLeadScore never throws: for every lead with fields missing
\* or null and every ICP shape it returns a score, a grade and a breakdown,
\* and a category whose fields are all missing or null scores zero.
C17_NoErrorPath ==
    Scored =>
        /\ scoreResult # Thrown
        /\ scoreResult.grade \in Grades
        /\ (~Present(lead.email) /\ ~Present(lead.phone) /\ ~Present(lead.website)
            /\ ~Present(lead.claimed)) => scoreResult.breakdown.dataQuality = Num(0)
        /\ (~Present(lead.rating) /\ ~Present(lead.reviewCount) /\ ~Present(lead.socialLinks))
              => scoreResult.breakdown.engagement = Num(0)
        /\ (~Present(lead.category) /\ ~Present(lead.address) /\ ~Present(lead.employeeCount))
              => scoreResult.breakdown.firmographic = Num(0)

(***************************************************************************)
(* The records the pipeline has scored.                                    *)
(***************************************************************************)
IsInteger(v) == IsNum(v) /\ v.n % U = 0

ScoredRecords ==
    {i \in 1..Len(dataset) : config.enableScoring /\ dataset[i].enrichmentError = Undefined
                             /\ dataset[i].leadScore # Undefined}

\* C18: every record the pipeline has scored carries leadScore, leadGrade
\* and scoreBreakdown, and the three values of its breakdown are integers,
\* also for a lead with one, two or three social links.
C18_ScoredRecordIntegers ==
    \A i \in ScoredRecords :
        /\ IsInteger(dataset[i].leadScore)
        /\ dataset[i].leadGrade \in {Str(g) : g \in Grades}
        /\ IsInteger(dataset[i].scoreBreakdown.dataQuality)
        /\ IsInteger(dataset[i].scoreBreakdown.engagement)
        /\ IsInteger(dataset[i].scoreBreakdown.firmographic)

(***************************************************************************)
(* The social links of a resolution, stated over the pages it scanned.     *)
(***************************************************************************)
PlatformTokens ==
    [linkedin |-> {"linkedin.com"}, facebook |-> {"facebook.com", "fb.com"},
     twitter |-> {"twitter.com", "x.com"}, instagram |-> {"instagram.com"}]

MatchesPlatform(href, k) ==
    href # "" /\ \E token \in PlatformTokens[k] : includes(toLowerCase(href), token)

\* the anchors of the pages a call scanned, in scan order and document order
RECURSIVE ScannedAnchors(_, _)
ScannedAnchors(site, scans) ==
    IF scans = <<>> THEN <<>>
    ELSE site.pages[Head(scans).url].anchors \o ScannedAnchors(site, Tail(scans))

FirstMatch(anchors, k) ==
    LET hits == {i \in 1..Len(anchors) : MatchesPlatform(anchors[i], k)}
    IN IF hits = {} THEN Null ELSE Str(anchors[MinOf(hits)])

\* C19: across the whole resolution, homepage and secondary page, each
\* platform's recorded link is the href of the first anchor, in the order
\* the anchors were scanned, that matches the platform; a later anchor or
\* page never replaces it.
C19_FirstLinkKept ==
    \A c \in Slots : \A i \in 1..4 :
        Get(calls[c].foundSocialLinks, SocialKeys[i])
            = FirstMatch(ScannedAnchors(calls[c].site, calls[c].scans), SocialKeys[i])

\* C19 witness: a resolution that kept the homepage's facebook link after it
\* scanned a secondary page with another facebook link
C19_Witness ==
    /\ \E c \in Slots :
        /\ Len(calls[c].scans) >= 2
        /\ calls[c].scans[Len(calls[c].scans)].url # AcmeUrl
        /\ Get(calls[c].foundSocialLinks, "facebook") = Str("https://www.facebook.com/acme")
        /\ Get(calls[c].foundSocialLinks, "instagram") = Str("https://instagram.com/acme")
        /\ MatchesPlatform("https://fb.com/acme.contact", "facebook")
        /\ "https://fb.com/acme.contact"
              \in {calls[c].site.pages[calls[c].scans[2].url].anchors[j] : j \in 1..3}

(***************************************************************************)
(* The email a resolution selects among the candidates of a page.          *)
(***************************************************************************)
PriorityPrefixSet == {"info@", "contact@", "hello@", "sales@", "support@", "admin@", "office@"}

StartsWithPriority(email) ==
    \E prefix \in PriorityPrefixSet :
        /\ Len(email) >= Len(prefix)
        /\ toLowerCase(SubSeq(email, 1, Len(prefix))) = prefix

\* the surviving candidates of the page a call took its email from
SurvivingCandidates(call) == candidatesOf(call.site.pages[call.foundOn].text)

\* C20: when at least one surviving candidate of the page starts with a
\* priority prefix, the selected email starts with a priority prefix, also
\* when candidates without one come first; otherwise the selected email is
\* the first surviving candidate.
C20_PriorityEmailSelected ==
    \A c \in Slots :
        Truthy(calls[c].foundEmail) =>
            LET candidates == SurvivingCandidates(calls[c])
            IN /\ candidates # <<>>
               /\ IF \E i \in 1..Len(candidates) : StartsWithPriority(candidates[i])
                  THEN StartsWithPriority(calls[c].foundEmail.s)
                       /\ \E i \in 1..Len(candidates) : candidates[i] = calls[c].foundEmail.s
                  ELSE calls[c].foundEmail.s = candidates[1]

\* C20 witness: the selected email has a priority prefix and is not the
\* first surviving candidate of its page
C20_Witness ==
    \E c \in Slots :
        /\ Truthy(calls[c].foundEmail)
        /\ Len(SurvivingCandidates(calls[c])) >= 2
        /\ ~StartsWithPriority(SurvivingCandidates(calls[c])[1])
        /\ calls[c].foundEmail.s = SurvivingCandidates(calls[c])[2]

(***************************************************************************)
(* The grade against the thresholds of README.md lines 79-84.              *)
(***************************************************************************)
\* C21: leads are graded on the README's thresholds: A+ for a score of 90 or
\* more, A for 80 or more, B for 70 or more, C for 60 or more, D for 50 or
\* more and F below 50.
C21_ReadmeThresholds ==
    Scored =>
        scoreResult.grade =
            IF JsGe(scoreResult.score, Num(90)) THEN "A+"
            ELSE IF JsGe(scoreResult.score, Num(80)) THEN "A"
            ELSE IF JsGe(scoreResult.score, Num(70)) THEN "B"
            ELSE IF JsGe(scoreResult.score, Num(60)) THEN "C"
            ELSE IF JsGe(scoreResult.score, Num(50)) THEN "D"
            ELSE "F"

(***************************************************************************)
(* The resolver on homepages whose text runs on after an address.          *)
(***************************************************************************)
\* the resolver called directly on the sites whose homepage shows an address
\* followed by other text
AdjacentCall ==
    /\ \E site \in AdjacentSites : extractEmailFromWebsite(1, site)
    /\ UNCHANGED scorerVars
    /\ UNCHANGED pipelineVars

NextAdjacent == AdjacentCall \/ ResolverRuns

SpecAdjacent == InitResolve /\ [][NextAdjacent]_vars

\* the address shown on a homepage of AdjacentSites
ShownAddress(text) ==
    (CHOOSE t \in AdjacentTexts : t.before \o t.address \o t.after = text).address

\* C22: an address immediately followed by letters of adjacent text is
\* extracted without them: the email taken from the homepage is the address
\* shown, its TLD holding no character of the text that follows.
C22_NoBleedIntoAdjacentText ==
    \A c \in Slots :
        (Truthy(calls[c].foundEmail) /\ calls[c].foundOn = AcmeUrl)
            => calls[c].foundEmail.s = ShownAddress(PageText(calls[c], AcmeUrl))

(***************************************************************************)
(* The resolver on homepages with several contact-like links.              *)
(***************************************************************************)
SecondaryCall ==
    /\ \E site \in SecondarySites : extractEmailFromWebsite(1, site)
    /\ UNCHANGED scorerVars
    /\ UNCHANGED pipelineVars

NextSecondary == SecondaryCall \/ ResolverRuns

SpecSecondary == InitResolve /\ [][NextSecondary]_vars

\* the same-domain links of the homepage whose href contains "contact",
\* "about" or "team" in any letter case and is neither a fragment-only nor
\* a mailto link, as absolute URLs
SuitableLinks(call) ==
    LET anchors == PageAnchors(call, AcmeUrl)
        Suits(h) ==
            /\ \E word \in {"contact", "about", "team"} : includes(toLowerCase(h), word)
            /\ h # "" /\ ~startsWith(h, "#") /\ ~startsWith(toLowerCase(h), "mailto:")
            /\ ~isInvalidUrl(h)
            /\ sameDomain(resolveUrl(h, AcmeUrl), AcmeUrl)
    IN {resolveUrl(anchors[i], AcmeUrl) : i \in {j \in 1..Len(anchors) : Suits(anchors[j])}}

\* the call ran to its end with no page failing to load, no handler cut
\* short and the timer not firing first
RanUndisturbed(call) ==
    /\ call.pc = "returned"
    /\ call.settledBy = "inner"
    /\ call.failures = {}
    /\ Len(call.scans) >= 1

\* C23: when the homepage yields no valid email and has at least one
\* suitable same-domain contact, about or team link, exactly one such link
\* is visited as the secondary page, also when other matching links come
\* before it in the document.
C23_SecondaryPageVisited ==
    \A c \in Slots :
        (/\ RanUndisturbed(calls[c])
         /\ ~Truthy(emailOfPage(PageText(calls[c], AcmeUrl)))
         /\ SuitableLinks(calls[c]) # {})
            => /\ Cardinality(calls[c].visitedUrls \ {AcmeUrl}) = 1
               /\ calls[c].visitedUrls \ {AcmeUrl} \subseteq SuitableLinks(calls[c])

(***************************************************************************)
(* The race of a call against its timer, the timer also firing after the   *)
(* race has settled.                                                       *)
(***************************************************************************)
TimerLapses ==
    /\ \E c \in Slots : timerFiresLate(c)
    /\ UNCHANGED scorerVars
    /\ UNCHANGED pipelineVars

NextRace == DirectCall \/ ResolverRuns \/ TimerLapses

SpecRace == InitResolve /\ [][NextRace]_vars

\* C24: the returned value is decided by whichever of the resolution and the
\* 45 s timer settles first.  When the timer fires first the caller gets the
\* all-null result, and the abandoned resolution completing later changes
\* nothing of it; when the resolution settles first, the timer firing later
\* changes nothing of the result and adds no failure.
C24_FirstSettlementDecides ==
    /\ [](\A c \in Slots :
            /\ calls[c].settledBy = "timer" => calls[c].outcome = AllNullResult
            /\ (calls[c].settledBy = "inner" /\ calls[c].inner # Pending)
                  => calls[c].outcome = calls[c].inner
            /\ calls[c].timer = "lapsed" => calls[c].settledBy \in {"inner", "catch"})
    /\ [][\A c \in Slots :
            Settled(calls[c]) =>
                /\ calls'[c].outcome = calls[c].outcome
                /\ calls'[c].settledBy = calls[c].settledBy
                /\ (calls[c].timer = "armed" /\ calls'[c].timer = "lapsed")
                      => calls'[c].failures = calls[c].failures]_vars

\* C24 witness: the timer fired first and the abandoned resolution later
\* completed with an email, the caller's result staying all-null
C24_Witness ==
    \E c \in Slots :
        /\ calls[c].settledBy = "timer"
        /\ calls[c].pc = "returned"
        /\ calls[c].inner # Pending
        /\ Truthy(calls[c].inner.email)
        /\ calls[c].outcome = AllNullResult

(***************************************************************************)
(* Concurrent calls of the resolver.                                       *)
(***************************************************************************)
\* what a call can return when it runs alone on the site: the all-null
\* literal, or the email and the links of the homepage, or of the homepage
\* and the page its contact link leads to, the email null when the crawl
\* failed or found none
AloneOutcomes(site) ==
    IF ~Truthy(site.url) THEN {AllNullResult}
    ELSE LET home == site.pages[site.url.s]
             homeLinks == socialLinksAfter(EmptySocialLinks, home.anchors)
             homeEmail == emailOfPage(home.text)
             second == {resolveUrl(contactLinksOf(home.anchors)[i], site.url.s) :
                           i \in 1..Len(contactLinksOf(home.anchors))} \cap DOMAIN site.pages
         IN {AllNullResult, Result(Null, homeLinks), Result(homeEmail, homeLinks)}
            \cup (IF Truthy(homeEmail) THEN {}
                  ELSE UNION {{Result(Null, socialLinksAfter(homeLinks, site.pages[u].anchors)),
                               Result(emailOfPage(site.pages[u].text),
                                      socialLinksAfter(homeLinks, site.pages[u].anchors))} :
                              u \in second})

\* C25: for every interleaving of concurrent calls, also two calls on the
\* same website, each call's found email, social links, visited pages and
\* request queue are its own: a step of one call changes no other call, and
\* each call returns a result it can return when it runs alone on the same
\* page contents.
C25_CallsIndependent ==
    /\ [](\A c \in Slots :
            (c <= Len(world) /\ Settled(calls[c]))
                => calls[c].outcome \in AloneOutcomes(world[c].site))
    /\ [][\A c, d \in Slots :
            (c # d /\ calls'[c] # calls[c]) => calls'[d] = calls[d]]_vars

\* C25 witness: two calls on the same website are under way at once, one
\* having scanned the homepage and found its email, the other not yet
C25_Witness ==
    /\ Len(world) = 2
    /\ world[1].site = world[2].site
    /\ calls[1].pc = "crawling" /\ calls[2].pc = "crawling"
    /\ Truthy(calls[1].foundEmail)
    /\ calls[1].foundSocialLinks # EmptySocialLinks
    /\ calls[2].visitedUrls = {}
    /\ calls[2].foundEmail = Null
    /\ calls[2].foundSocialLinks = EmptySocialLinks

(***************************************************************************)
(* main.js lines 59-78: the ICP main builds from the targetIndustries      *)
(* input.                                                                  *)
(***************************************************************************)
MaxTargetIndustries == 8

TargetNames ==
    <<"technology", "healthcare", "retail", "manufacturing", "legal", "finance",
      "education", "construction", "hospitality", "logistics">>

\* rawInput.targetIndustries: absent, not a list, empty, short lists with
\* repetitions and lists of distinct names up to MaxTargetIndustries
TargetIndustriesInputs ==
    {Undefined, Str("technology"), Arr(<<>>)}
        \cup {Arr(SubSeq(TargetNames, 1, n)) : n \in 1..MaxTargetIndustries}
        \cup {Arr(s) : s \in UNION {[1..n -> {TargetNames[i] : i \in 1..3}] : n \in 1..4}}

\* Object.fromEntries(targetIndustries.map((ind, idx) => [ind, 30 - (idx * 5)])):
\* a key stands where it was first listed and holds the value of its last entry
fromEntries(items) ==
    LET kept == {i \in 1..Len(items) : \A j \in 1..(i - 1) : items[j] # items[i]}
        Place(i) == Cardinality({j \in kept : j <= i})
        LastAt(k) == MaxOf({i \in 1..Len(items) : items[i] = k})
    IN Obj([n \in 1..Cardinality(kept) |-> items[CHOOSE i \in kept : Place(i) = n]],
           [k \in {items[i] : i \in 1..Len(items)} |-> Num(30 - (LastAt(k) - 1) * 5)])

\* lines 60-77: input.scoring.idealCustomerProfile
idealCustomerProfile(rawInput) ==
    [industries |->
        IF rawInput.targetIndustries.t = "array" /\ Len(rawInput.targetIndustries.items) > 0
        THEN fromEntries(rawInput.targetIndustries.items)
        ELSE DefaultICP.industries,
     locations |-> DefaultICP.locations,
     employeeRanges |-> Undefined]

InitProfile ==
    /\ ScorerUnused
    /\ calls = <<>>
    /\ world = <<>>
    /\ config \in {[rawInput |-> [targetIndustries |-> t], idealCustomerProfile |-> Undefined] :
                      t \in TargetIndustriesInputs}
    /\ scraper = Null
    /\ requests = <<>>
    /\ procs = <<>>
    /\ dataset = <<>>
    /\ stats = Null

\* main.js lines 32-78: main transforms its raw input
transformInput ==
    /\ config.idealCustomerProfile = Undefined
    /\ config' = [config EXCEPT !.idealCustomerProfile = idealCustomerProfile(config.rawInput)]
    /\ UNCHANGED <<lead, icp, scoreResult, calls, world, scraper, requests, procs, dataset,
                   stats>>

SpecProfile == InitProfile /\ [][transformInput]_vars

InPointRange(v) == IsNum(v) /\ 0 <= v.n /\ v.n <= 30 * U

\* C26: the ICP main builds from targetIndustries gives every listed
\* industry a point value in 0..30, whatever the length of the list (the
\* k-th listed industry, counting from 0, gets 30 - 5k), and every location
\* a value in 0..30.
C26_ProfilePointsInRange ==
    config.idealCustomerProfile # Undefined =>
        LET listed == config.rawInput.targetIndustries
            built == config.idealCustomerProfile
        IN /\ (listed.t = "array" =>
                 \A k \in 1..Len(listed.items) :
                    /\ Get(built.industries, listed.items[k]) = Num(30 - 5 * (k - 1))
                    /\ InPointRange(Get(built.industries, listed.items[k])))
           /\ \A k \in DOMAIN built.industries.vals : InPointRange(built.industries.vals[k])
           /\ \A k \in DOMAIN built.locations.vals : InPointRange(built.locations.vals[k])

(***************************************************************************)
(* The score of a lead against the score of the same lead without its      *)
(* social links.                                                           *)
(***************************************************************************)
WithoutSocialLinks(l) == [l EXCEPT !.socialLinks = SocialLinksOf(0)]

\* C27: finding a social link never lowers a lead's score: the score of a
\* lead with at least one non-null social link is greater than or equal to
\* the score of the same lead with all its social links null.
C27_SocialLinkNeverLowersScore ==
    (Scored /\ HasNonNullSocialLink(lead))
        => JsGe(scoreResult.score, calculateLeadScore(WithoutSocialLinks(lead), icp).score)

(***************************************************************************)
(* googleMaps.js: the detail crawler with its handler timeout.  A request  *)
(* handler still awaiting onLeadScraped at requestHandlerTimeoutSecs       *)
(* (lines 473 and 483) is timed out by the crawler, which errors the       *)
(* request; the callback it awaited goes on.  procs is here the list of    *)
(* the invocations of onLeadScraped, in the order they were made.          *)
(***************************************************************************)
DetailWorlds == {<<BusinessWithSite(SiteBare)>>, <<BusinessWithoutSite>>}

InitDetail ==
    /\ ScorerUnused
    /\ calls = <<>>
    /\ world \in DetailWorlds
    /\ config \in {Config(FALSE, TRUE, FALSE, FALSE), Config(FALSE, FALSE, FALSE, FALSE)}
    /\ scraper = [phase |-> "detail", leads |-> [b \in 1..Len(world) |-> cardOf(b)], next |-> 1]
    /\ requests = [b \in 1..Len(world) |-> [status |-> "queued", retryCount |-> 0, awaits |-> 0]]
    /\ procs = <<>>
    /\ dataset = <<>>
    /\ stats = NoStats

\* the detail crawler takes a queued request while it has a free browser
DetailBrowserFree(b) ==
    /\ scraper.phase = "detail"
    /\ requests[b].status = "queued"
    /\ Cardinality({o \in DOMAIN requests : requests[o].status \in {"handling", "failing"}})
          < detailConcurrency

\* lines 802-813 and 845-851: onLeadScraped(l) is called and awaited
onLeadScraped(b, l, by) ==
    /\ procs' = Append(procs, [b |-> b, lead |-> l, by |-> by, pc |-> "running"])
    /\ requests' = [requests EXCEPT ![b].status =
                        IF by = "requestHandler" THEN "handling" ELSE "failing",
                    ![b].awaits = Len(procs) + 1]

\* the request errored: it is retried while it has a retry left, otherwise
\* failedRequestHandler (lines 823-852) hands over the partial lead
detailRequestErrored(b) ==
    IF requests[b].retryCount < detailRetries
    THEN /\ requests' = [requests EXCEPT ![b].status = "queued", ![b].retryCount = @ + 1]
         /\ UNCHANGED procs
    ELSE onLeadScraped(b, partialLead(b), "failedRequestHandler")

\* the detail page does not load, or the handler is timed out before it
\* has called onLeadScraped
detailPageFails(b) ==
    /\ DetailBrowserFree(b)
    /\ detailRequestErrored(b)
    /\ UNCHANGED <<calls, world, config, scraper, dataset, stats>>

\* lines 512-821: the detail page loads and the handler runs up to its await
\* of onLeadScraped, or ends without calling it
detailHandlerRuns(b) ==
    /\ DetailBrowserFree(b)
    /\ \E isClosed \in BOOLEAN, thrown \in BOOLEAN :
        IF thrown \/ (config.skipClosedPlaces /\ isClosed) \/ ~shouldInclude(fullLead(b))
        THEN /\ requests' = [requests EXCEPT ![b].status = "done"]
             /\ UNCHANGED procs
        ELSE onLeadScraped(b, fullLead(b), "requestHandler")
    /\ UNCHANGED <<calls, world, config, scraper, dataset, stats>>

\* line 483: the handler is still awaiting onLeadScraped at its timeout
detailHandlerTimesOut(b) ==
    /\ scraper.phase = "detail"
    /\ requests[b].status = "handling"
    /\ procs[requests[b].awaits].pc = "running"
    /\ detailRequestErrored(b)
    /\ UNCHANGED <<calls, world, config, scraper, dataset, stats>>

\* main.js lines 124-221: an invocation of the callback ends, the record
\* pushed unless both writes fail
callbackEnds(i) ==
    /\ procs[i].pc = "running"
    /\ procs' = [procs EXCEPT ![i].pc = "done"]
    /\ \E ok \in BOOLEAN :
        IF ok
        THEN /\ dataset' = Append(dataset, stamped(procs[i].lead))
             /\ stats' = saved(stats)
        ELSE UNCHANGED <<dataset, stats>>
    /\ UNCHANGED <<calls, world, config, scraper, requests>>

\* the callback the handler awaits has settled and the handler returns
detailHandlerReturns(b) ==
    /\ requests[b].status \in {"handling", "failing"}
    /\ procs[requests[b].awaits].pc = "done"
    /\ requests' = [requests EXCEPT ![b].status = "done"]
    /\ UNCHANGED <<calls, world, config, scraper, procs, dataset, stats>>

\* lines 869-873: detailCrawler.run resolves
detailRunResolves ==
    /\ scraper.phase = "detail"
    /\ \A b \in DOMAIN requests : requests[b].status = "done"
    /\ scraper' = [scraper EXCEPT !.phase = "done"]
    /\ UNCHANGED <<calls, world, config, requests, procs, dataset, stats>>

NextDetail ==
    \/ \E b \in DOMAIN requests : detailPageFails(b)
    \/ \E b \in DOMAIN requests : detailHandlerRuns(b)
    \/ \E b \in DOMAIN requests : detailHandlerTimesOut(b)
    \/ \E i \in DOMAIN procs : callbackEnds(i)
    \/ \E b \in DOMAIN requests : detailHandlerReturns(b)
    \/ detailRunResolves

SpecDetail == InitDetail /\ [][NextDetail /\ UNCHANGED scorerVars]_vars

DeliveriesOf(b) == {i \in 1..Len(procs) : procs[i].b = b}

\* C28: in detailed mode each business collected in the search phase is
\* delivered to onLeadScraped, and so pushed to the dataset, at most once a
\* run: never by both the request handler and the failed-request handler,
\* and never twice across retries or handler timeouts of its request.
C28_DeliveredAtMostOnce ==
    \A b \in 1..Len(world) :
        /\ Cardinality(DeliveriesOf(b)) <= 1
        /\ Cardinality({i \in 1..Len(dataset) : dataset[i].b = b}) <= 1

(***************************************************************************)
(* googleMaps.js: the search phase.  leads and processedUrls (lines 29-30) *)
(* belong to the call of scrapeGoogleMaps, so every run of the search      *)
(* handler, a retry or one the crawler has timed out, works on the same    *)
(* two.  scraper.handlers lists the runs of the handler.                   *)
(***************************************************************************)
ListingSize == 24
searchRetries == 3

DigitNames == <<"0", "1", "2", "3", "4", "5", "6", "7", "8", "9">>
placeName(i) == "place" \o DigitNames[(i \div 10) + 1] \o DigitNames[(i % 10) + 1]

ListedBusiness(i) ==
    Business(placeName(i), Dec(45, 10), Num(i), Null, NoSite, Null, Null, FALSE,
             EmptySocialLinks)

\* the feed, in listing order: the third and the last entry show the first
\* business again
SearchWorld ==
    [i \in 1..ListingSize |-> IF i \in {3, ListingSize} THEN ListedBusiness(1)
                              ELSE ListedBusiness(i)]

\* the number of entries the feed shows when the cards are extracted
VisibleCounts == {0, 3, 12, ListingSize}

SearchConfig(maxResults, minReviews) ==
    [maxResults |-> maxResults, fastMode |-> FALSE,
     filters |-> [minRating |-> Num(0), minReviews |-> Num(minReviews)]]

InitSearch ==
    /\ ScorerUnused
    /\ calls = <<>>
    /\ world = SearchWorld
    /\ config \in {SearchConfig(n, r) : n \in {2, 21}, r \in {0, 5}}
    /\ scraper = [phase |-> "search", leads |-> <<>>, processedUrls |-> {},
                  handlers |-> <<>>,
                  request |-> [status |-> "queued", retryCount |-> 0, handler |-> 0]]
    /\ requests = <<>>
    /\ procs = <<>>
    /\ dataset = <<>>
    /\ stats = NoStats

\* lines 139-343: the cards of the first visible entries of the feed, an
\* href kept once (lines 169-170)
extractCards(visible) ==
    LET First(i) == \A j \in 1..(i - 1) : world[j].googleMapsUrl # world[i].googleMapsUrl
        kept == SelectSeq([i \in 1..visible |-> i], First)
    IN [n \in 1..Len(kept) |-> cardOf(kept[n])]

\* lines 361-384: the loop over the extracted cards, on the leads, the
\* processed URLs and the count of added cards
RECURSIVE addNewCardsUnchecked(_, _)
addNewCardsUnchecked(acc, cards) ==
    IF cards = <<>> THEN acc
    ELSE LET card == Head(cards)
         IN IF Len(acc.leads) >= config.maxResults THEN acc
            ELSE addNewCardsUnchecked(
                     [leads |-> Append(acc.leads, card),
                      processedUrls |-> acc.processedUrls \cup {card.googleMapsUrl},
                      addedCount |-> acc.addedCount + 1],
                     Tail(cards))
RECURSIVE addNewCards(_, _)
addNewCards(acc, cards) ==
    IF cards = <<>> THEN acc
    ELSE LET card == Head(cards)
         IN IF card.googleMapsUrl \in acc.processedUrls
            THEN addNewCards(acc, Tail(cards))
            ELSE IF Len(acc.leads) >= config.maxResults THEN acc
            ELSE IF \/ (Truthy(config.filters.minRating) /\ card.rating # Null
                        /\ ~JsGe(card.rating, config.filters.minRating))
                    \/ (Truthy(config.filters.minReviews)
                        /\ ~JsGe(card.reviewCount, config.filters.minReviews))
            THEN addNewCards(acc, Tail(cards))
            ELSE addNewCards([leads |-> Append(acc.leads, card),
                              processedUrls |-> acc.processedUrls \cup {card.googleMapsUrl},
                              addedCount |-> acc.addedCount + 1],
                             Tail(cards))

\* line 124: Math.ceil(maxResults / 20)
maxScrollAttempts == (config.maxResults + 19) \div 20

\* the search request errored: retried while it has a retry left (line 69),
\* otherwise failedRequestHandler (lines 419-423) logs it
searchRequestErrored ==
    IF scraper.request.retryCount < searchRetries
    THEN [scraper.request EXCEPT !.status = "queued", !.retryCount = @ + 1]
    ELSE [scraper.request EXCEPT !.status = "failed"]

\* the search page does not load, or the feed does not show within 30 s and
\* the handler rethrows (lines 117-119 and 394-415)
searchPageFails ==
    /\ scraper.phase = "search"
    /\ scraper.request.status = "queued"
    /\ scraper' = [scraper EXCEPT !.request = searchRequestErrored]
    /\ UNCHANGED <<calls, world, config, requests, procs, dataset, stats>>

\* lines 107-124: the page has loaded and the handler reaches its loop
searchHandlerStarts ==
    /\ scraper.phase = "search"
    /\ scraper.request.status = "queued"
    /\ scraper' = [scraper EXCEPT
          !.handlers = Append(@, [pc |-> "looping", scrollAttempts |-> 0]),
          !.request = [@ EXCEPT !.status = "handling", !.handler = Len(scraper.handlers) + 1]]
    /\ UNCHANGED <<calls, world, config, requests, procs, dataset, stats>>

\* line 126: the loop condition; the handler goes on to scroll and wait
\* (lines 128-136) or leaves the loop
scrollBegins(h) ==
    /\ scraper.handlers[h].pc = "looping"
    /\ scraper' = [scraper EXCEPT !.handlers[h].pc =
          IF Len(scraper.leads) < config.maxResults
             /\ scraper.handlers[h].scrollAttempts < maxScrollAttempts
          THEN "extracting" ELSE "ended"]
    /\ UNCHANGED <<calls, world, config, requests, procs, dataset, stats>>

\* the handler after the cards of an extraction were added (lines 361-392)
afterAdding(handler, acc) ==
    [handler EXCEPT !.scrollAttempts = @ + 1,
                    !.pc = IF acc.addedCount = 0 THEN "ended" ELSE "looping"]

\* lines 139-392: the cards are extracted and the new ones added, or the
\* page throws and the handler rethrows
scrollAdds(h) ==
    /\ scraper.handlers[h].pc = "extracting"
    /\ \E visible \in VisibleCounts, thrown \in BOOLEAN :
        scraper' =
            IF thrown THEN [scraper EXCEPT !.handlers[h].pc = "thrown"]
            ELSE [scraper EXCEPT
                    !.leads = addNewCards([leads |-> scraper.leads,
                                           processedUrls |-> scraper.processedUrls,
                                           addedCount |-> 0],
                                          extractCards(visible)).leads,
                    !.processedUrls = addNewCards([leads |-> scraper.leads,
                                                   processedUrls |-> scraper.processedUrls,
                                                   addedCount |-> 0],
                                                  extractCards(visible)).processedUrls,
                    !.handlers[h] = afterAdding(@,
                                        addNewCards([leads |-> scraper.leads,
                                                     processedUrls |-> scraper.processedUrls,
                                                     addedCount |-> 0],
                                                    extractCards(visible)))]
    /\ UNCHANGED <<calls, world, config, requests, procs, dataset, stats>>

\* the handler the request waits for has returned or thrown
searchHandlerSettles ==
    /\ scraper.phase = "search"
    /\ scraper.request.status = "handling"
    /\ scraper.handlers[scraper.request.handler].pc \in {"ended", "thrown"}
    /\ scraper' = [scraper EXCEPT !.request =
          IF scraper.handlers[scraper.request.handler].pc = "ended"
          THEN [@ EXCEPT !.status = "done"]
          ELSE searchRequestErrored]
    /\ UNCHANGED <<calls, world, config, requests, procs, dataset, stats>>

\* line 70: the handler is still in its loop at requestHandlerTimeoutSecs;
\* the request is errored and the timed-out run goes on
searchHandlerTimesOut ==
    /\ scraper.phase = "search"
    /\ scraper.request.status = "handling"
    /\ scraper.handlers[scraper.request.handler].pc \in {"looping", "extracting"}
    /\ scraper' = [scraper EXCEPT !.request = searchRequestErrored]
    /\ UNCHANGED <<calls, world, config, requests, procs, dataset, stats>>

\* line 427: crawler.run resolves
searchRunResolves ==
    /\ scraper.phase = "search"
    /\ scraper.request.status \in {"done", "failed"}
    /\ scraper' = [scraper EXCEPT !.phase = "collected"]
    /\ UNCHANGED <<calls, world, config, requests, procs, dataset, stats>>

NextSearch ==
    \/ searchPageFails
    \/ searchHandlerStarts
    \/ \E h \in DOMAIN scraper.handlers : scrollBegins(h)
    \/ \E h \in DOMAIN scraper.handlers : scrollAdds(h)
    \/ searchHandlerSettles
    \/ searchHandlerTimesOut
    \/ searchRunResolves

SpecSearch == InitSearch /\ [][NextSearch /\ UNCHANGED scorerVars]_vars

\* C29: at every point of the search phase, across scroll iterations and
\* retries of the search request, no two collected cards have the same
\* googleMapsUrl and the list never holds more than maxResults cards.
C29_CardsUniqueAndCapped ==
    /\ Len(scraper.leads) <= config.maxResults
    /\ \A i, j \in 1..Len(scraper.leads) :
          scraper.leads[i].googleMapsUrl = scraper.leads[j].googleMapsUrl => i = j

\* C29 witness: a retried handler and the run it replaced have both added
\* cards, the second scroll filling the list to maxResults past entries the
\* feed showed twice
C29_Witness ==
    /\ Len(scraper.leads) = config.maxResults
    /\ config.maxResults = 21
    /\ scraper.request.retryCount >= 1
    /\ Len(scraper.handlers) >= 2
    /\ \A h \in 1..2 : scraper.handlers[h].scrollAttempts >= 1

(***************************************************************************)
(* The statistics of main.js lines 108-115 against the dataset.            *)
(***************************************************************************)
\* no invocation of processAndSaveLead is under way
NoInvocationRunning ==
    \A b \in Slots : procs[b].pc \in Finished \cup {"idle"}

\* main.js line 248, items.filter(...).length: the pushed records that
\* satisfy keep
CountOfRecords(keep(_)) ==
    Cardinality({i \in DOMAIN dataset : keep(dataset[i])})

HasEmailValue(record) == record.email \notin {Null, Undefined}
HasHighGrade(record) == record.leadGrade \in {Str("A+"), Str("A")}

\* C30: whenever no invocation of processAndSaveLead is under way, totalLeads
\* and enrichedLeads equal the number of pushed records, emailsFound equals
\* the number of pushed records with an email, and highQualityLeads equals
\* the number of pushed records graded A+ or A.
C30_StatsMatchDataset ==
    NoInvocationRunning =>
        /\ stats.totalLeads = Len(dataset)
        /\ stats.enrichedLeads = Len(dataset)
        /\ stats.emailsFound = CountOfRecords(HasEmailValue)
        /\ stats.highQualityLeads = CountOfRecords(HasHighGrade)

====
